---- MODULE Spec2Model ----
(***************************************************************************)
(* A model of the sasc workspace: the lifetime-guard pair (ValueGuard /    *)
(* RefGuard), the wake cells built on it (WakeStore, WakeArray), the       *)
(* completion wrapper MaybeDone and the Join and Race combinators.         *)
(*                                                                         *)
(* Objects live in numbered slots (addresses).  A slot is "free" before    *)
(* its object is created and after it is dropped, and may then be reused.  *)
(* Pointers are slot numbers; None is the null pointer / Option::None.     *)
(* Dereferencing a pointer to a free slot is recorded in uaf.              *)
(***************************************************************************)
EXTENDS Integers, Sequences, FiniteSets, TLC

\* ------------------------------------------------------------------ bounds
NumValueGuards == 2
NumRefGuards == 2
MaxValue == 2
\* children of a combinator / wrappers polled side by side
NumChildren == 2
\* a counting operation returns Ready on its ready_at-th poll, ready_at <= MaxReadyAt
MaxReadyAt == 2
\* no operation is polled more than MaxPolls times
MaxPolls == 3
\* the counting operations of the test scenarios return Ready on a poll <= MaxCount
MaxCount == 5
\* root wake handles (a driver's waker and its ValueGuard)
NumRoots == 2
\* WakeArrays: the first is the array of a combinator and has NumChildren
\* cells, the others are driven on their own and can be nested
NumArrays == 3
\* N of the WakeArray<N>s other than the first
NumNested == 1
\* WakeStores that are not part of a WakeArray
NumStores == 1
\* RefGuards that are not part of a WakeArray
NumRefs == 1
\* root handles, WakeArrays, and WakeStores and RefGuards outside a WakeArray
\* that exist at any one time while they are driven on their own, counting
\* the destroyed handles a caller still holds a pointer to
MaxLive == 3
\* handles that hold a pointer stored by their holder, at any one time
MaxRedirected == 1
\* root handles that the wake cells are driven with on their own
NumWakeRoots == 1

\* Option::None for a pointer slot; Some(p) is the slot number p >= 1.
None == 0

\* Option<T> of a returned value: <<>> is None, <<x>> is Some(x).
NoneOpt == <<>>
Some(x) == <<x>>

VARIABLES
    \* lifetime-guard: ValueGuard { data, ref_guard }, RefGuard { value_guard }
    data, ref_guard, vg_state, value_guard, rg_state,
    \* TRUE once a pointer to a free slot has been dereferenced; for the wake
    \* cells of wake.rs: whether the last step called through a pointer to a
    \* destroyed cell
    uaf,
    \* which implementation of the pair is in use: "guard" (guard.rs) or "lib" (lib.rs)
    variant,
    \* history: the last call and what it returned; why a RefGuard lost its link
    lastOp, severed,
    \* the pollable operations (counting closures as in the tests): how often each
    \* has been polled and on which poll it returns Ready
    \* and which handle it wakes at every poll (None, its own or another child's)
    inner_polls, ready_at, wake_target,
    \* MaybeDone: the state of each wrapper and the output it holds when Done
    md_state, md_output,
    \* TRUE once a panic has unwound the program; TRUE once undefined behaviour
    \* (unwrap_unchecked of None) has been executed
    panicked, ub,
    \* the build profile: debug_assert! is compiled in or not
    debug_assertions,
    \* history: the number of poll calls made on the combinator
    calls,
    \* history: the last poll / take_output call and its result; the number of
    \* inner polls each wrapper had made when it became Done
    lastCall, done_at,
    \* wake.rs: WakeStore { wake_parent, activated } of every slot of every
    \* WakeArray, and whether the array exists
    activated, wake_parent, array_state,
    \* wakers.rs: WakeStore { parent, ready }
    ready, parent,
    \* race.rs: the WakerRefs of the Race, refs[s] is None or a pointer to cell s
    refs,
    \* history: how many wake() calls each wake object received in the last step
    wakes,
    \* TRUE once a wake() has recursed until the stack overflowed (the process
    \* is aborted)
    overflow,
    \* atomic_guard.rs: the pointer a get() in progress on a RefGuard has read
    \* from its value_guard cell and not yet read through (None: no get in progress);
    \* for a register() or drop() in progress, the pointer it has taken out of
    \* the cell
    loaded,
    \* atomic_guard.rs: the call in progress on each RefGuard, on its owner's
    \* thread, and how far it has got
    in_call,
    \* atomic_guard.rs: the ValueGuard a register() in progress was called with
    \* (None: no register in progress)
    pending

guardVars == <<data, ref_guard, vg_state, value_guard, rg_state, uaf, variant, lastOp, severed>>
opVars == <<inner_polls, ready_at, wake_target>>
mdVars == <<md_state, md_output, panicked, ub, debug_assertions, calls, lastCall, done_at>>
cellVars == <<activated, wake_parent, array_state, ready, parent, refs, wakes, overflow>>
threadVars == <<loaded, in_call, pending>>
nonGuardVars == <<opVars, mdVars, cellVars, threadVars>>
vars == <<guardVars, opVars, mdVars, cellVars, threadVars>>

\* The memory of the guard pairs as one record, so that an operation is a
\* function on it.
Heap ==
    [data |-> data, ref_guard |-> ref_guard, vg_state |-> vg_state,
     value_guard |-> value_guard, rg_state |-> rg_state, uaf |-> uaf]

\* what a call finds when no pointer it calls through is stale
NoJunk == [fault |-> FALSE, to |-> None]

\* The memory of all objects as one record.
World ==
    [data |-> data, ref_guard |-> ref_guard, vg_state |-> vg_state,
     value_guard |-> value_guard, rg_state |-> rg_state, uaf |-> uaf,
     activated |-> activated, wake_parent |-> wake_parent,
     array_state |-> array_state, ready |-> ready, parent |-> parent, refs |-> refs,
     wakes |-> wakes, overflow |-> overflow,
     inner_polls |-> inner_polls, md_state |-> md_state, md_output |-> md_output,
     done_at |-> done_at, panicked |-> panicked, ub |-> ub,
     \* the wake objects whose wake() is on the call stack
     stack |-> {},
     \* what a call through a pointer to a destroyed cell finds (undefined
     \* behaviour), and whether the call in progress has faulted on one
     junk |-> NoJunk,
     fault |-> FALSE,
     \* the value the call in progress returns
     ret |-> NoneOpt]

Commit(w) ==
    /\ data' = w.data
    /\ ref_guard' = w.ref_guard
    /\ vg_state' = w.vg_state
    /\ value_guard' = w.value_guard
    /\ rg_state' = w.rg_state
    /\ uaf' = w.uaf

\* A dereference of a ValueGuard / RefGuard pointer: touching a free slot (or
\* one whose object is gone) is a use after free.
DerefValueGuard(w, v) ==
    IF w.vg_state[v] \in {"free", "gone"} THEN [w EXCEPT !.uaf = TRUE] ELSE w
DerefRefGuard(w, r) == IF w.rg_state[r] = "free" THEN [w EXCEPT !.uaf = TRUE] ELSE w

\* ------------------------------------------------- lifetime-guard/src/guard.rs
ValueGuard_new(w, v, x) ==
    [w EXCEPT !.data[v] = x, !.ref_guard[v] = None, !.vg_state[v] = "live"]

\* mutant: set() starts the guard afresh, as new() does
Mut_ValueGuard_set(w, v, x) == [w EXCEPT !.data[v] = x, !.ref_guard[v] = None]

ValueGuard_set(w, v, x) == [w EXCEPT !.data[v] = x]

ValueGuard_invalidate_ref_guard(w, v) ==
    [DerefValueGuard(w, v) EXCEPT !.ref_guard[v] = None]

RefGuard_invalidate_value_guard(w, r) ==
    [DerefRefGuard(w, r) EXCEPT !.value_guard[r] = None]

\* mutant: the replaced RefGuard is not told that it lost its ValueGuard
Mut_ValueGuard_replace_ref_guard(w, v, rg) == [w EXCEPT !.ref_guard[v] = rg]

ValueGuard_replace_ref_guard(w, v, rg) ==
    LET old == w.ref_guard[v]
        w1 == [w EXCEPT !.ref_guard[v] = rg]
    IN  IF old # None THEN RefGuard_invalidate_value_guard(w1, old) ELSE w1

\* mutant: the replaced ValueGuard keeps its pointer to this RefGuard
Mut_RefGuard_replace_value_guard(w, r, vg) == [w EXCEPT !.value_guard[r] = vg]

RefGuard_replace_value_guard(w, r, vg) ==
    LET old == w.value_guard[r]
        w1 == [w EXCEPT !.value_guard[r] = vg]
    IN  IF old # None THEN ValueGuard_invalidate_ref_guard(w1, old) ELSE w1

\* mutant: a dropped ValueGuard leaves its RefGuard pointing at it
Mut_ValueGuard_drop(w, v) == [w EXCEPT !.vg_state[v] = "free"]

ValueGuard_drop(w, v) ==
    [ValueGuard_replace_ref_guard(w, v, None) EXCEPT !.vg_state[v] = "free"]

RefGuard_new(w, r) == [w EXCEPT !.value_guard[r] = None, !.rg_state[r] = "live"]

RefGuard_register(w, r, v) ==
    RefGuard_replace_value_guard(ValueGuard_replace_ref_guard(w, v, r), r, v)

\* RefGuard::get reads through the pointer without any check of its own.
RefGuard_get_dangling(w, r) ==
    /\ w.value_guard[r] # None
    /\ w.vg_state[w.value_guard[r]] = "free"

RefGuard_get(w, r) ==
    IF w.value_guard[r] = None THEN NoneOpt ELSE Some(w.data[w.value_guard[r]])

\* mutant: a dropped RefGuard leaves its ValueGuard pointing at it
Mut_RefGuard_drop(w, r) == [w EXCEPT !.rg_state[r] = "free"]

RefGuard_drop(w, r) ==
    [RefGuard_replace_value_guard(w, r, None) EXCEPT !.rg_state[r] = "free"]

\* --------------------------------------------------- lifetime-guard/src/lib.rs
\* (free functions named after the guard whose link they clear through)
Lib_invalidate_value_guard(w, v) ==
    [DerefValueGuard(w, v) EXCEPT !.ref_guard[v] = None]

Lib_invalidate_ref_guard(w, r) ==
    [DerefRefGuard(w, r) EXCEPT !.value_guard[r] = None]

Lib_ValueGuard_drop(w, v) ==
    LET w1 == IF w.ref_guard[v] # None
              THEN Lib_invalidate_ref_guard(w, w.ref_guard[v]) ELSE w
    IN  [w1 EXCEPT !.vg_state[v] = "free"]

Lib_RefGuard_drop(w, r) ==
    LET w1 == IF w.value_guard[r] # None
              THEN Lib_invalidate_value_guard(w, w.value_guard[r]) ELSE w
    IN  [w1 EXCEPT !.rg_state[r] = "free"]

\* mutant: the slot's old ValueGuard and the ValueGuard's old RefGuard are left alone
Mut_GuardRegistration_register(w, v, slot) ==
    [w EXCEPT !.value_guard[slot] = v, !.ref_guard[v] = slot]

GuardRegistration_register(w, v, slot) ==
    LET old_vg == w.value_guard[slot]
        w1 == [w EXCEPT !.value_guard[slot] = v]
        w2 == IF old_vg # None THEN Lib_invalidate_value_guard(w1, old_vg) ELSE w1
        old_rg == w2.ref_guard[v]
        w3 == [w2 EXCEPT !.ref_guard[v] = slot]
    IN  IF old_rg # None THEN Lib_invalidate_ref_guard(w3, old_rg) ELSE w3

\* ------------------------------------------- the guard pair as a state machine
ValueGuards == 1..NumValueGuards
RefGuards == 1..NumRefGuards
Values == 1..MaxValue
Variants == {"guard", "lib"}
\* The ValueGuard slots on the heap (Box::pin); the others are on the stack (pin!).
\* Only a heap-pinned guard may be leaked, see the Safety notes of guard.rs.
HeapSlots == {1}

\* The last call, as far as a later check needs it.  For a get(): the RefGuard
\* it was made on and the value it returned.  For the drop of a guard: the
\* partner it was linked to.  For a register of a RefGuard that records a
\* ValueGuard: that ValueGuard.  Any other call: NoOp.
Op(name, g, ret) == [op |-> name, arg |-> g, ret |-> ret]

NoOp == Op("none", None, NoneOpt)

\* ------------------------------------------------------------- wake objects
\* A wake object (dyn Wake) is a root waker (DummyWaker / FnWake of a driver)
\* or a WakeStore.  Root h is wake object h and its ValueGuard is slot h.  The
\* WakeStore of slot i of array a, and the child ValueGuard of that slot, have
\* number Store(a, i); the parent RefGuard of array a is RefGuard slot a.  A
\* WakeStore outside a WakeArray has number LooseStore(k) and no ValueGuard;
\* a RefGuard outside a WakeArray has a slot after those of the arrays.
Roots == 1..NumRoots
Arrays == 1..NumArrays
ArrayLen(a) == IF a = 1 THEN NumChildren ELSE NumNested
Store(a, i) == NumRoots + (IF a = 1 THEN 0 ELSE NumChildren + (a - 2) * NumNested) + i
ChildGuard(a, i) == Store(a, i)
ParentRef(a) == a
ArrayStores == UNION {{Store(a, i) : i \in 1..ArrayLen(a)} : a \in Arrays}
LooseStore(k) == NumRoots + NumChildren + (NumArrays - 1) * NumNested + k
LooseStores == {LooseStore(k) : k \in 1..NumStores}
Stores == ArrayStores \cup LooseStores
\* the owner of a cell: its WakeArray, or for a WakeStore outside a WakeArray
\* a number of its own after those of the arrays
Owners == 1..(NumArrays + NumStores)
ArrayOf(s) ==
    IF s <= NumRoots + NumChildren THEN 1
    ELSE IF s < LooseStore(1) THEN ((s - NumRoots - NumChildren - 1) \div NumNested) + 2
    ELSE NumArrays + 1 + (s - LooseStore(1))
LooseRefs == {NumArrays + k : k \in 1..NumRefs}
WakeRefs == Arrays \cup LooseRefs
WakeObjects == Roots \cup Stores

NoWakes == [o \in WakeObjects |-> 0]

\* A pointer to the WakeStore of slot s that has been destroyed since the
\* pointer was taken (with its array, if it was part of one): it keeps the
\* address, and stays stale when a new cell is created at that address.  The
\* same for the pointer a WakeStore holds to a RefGuard that has been destroyed.
StalePtr(s) == -s
Stale(p) == p < 0
AddrOf(p) == IF p < 0 THEN -p ELSE p

\* A call through a stale pointer is undefined behaviour.  The outcomes: the
\* call faults at the dereference and the process is terminated; or
\* WakeStore::wake runs on the memory at that address.  If a new array has
\* been created there, that is the cell of the new array.  If not, the write
\* of the flag goes to released memory and the parent link read from it is
\* indeterminate: the call forwards to nothing or to wake object `to`.
Junk ==
    {[fault |-> TRUE, to |-> None]}
        \cup {[fault |-> FALSE, to |-> o] : o \in {None} \cup WakeObjects}

\* --------------------------------------------- futures-combinators/src/wake.rs
\* mutant: the cells of a new array start with their flag clear
Mut_WakeArray_new_clear(w, a) ==
    LET mine == {Store(a, i) : i \in 1..ArrayLen(a)}
    IN  [w EXCEPT
           !.value_guard[ParentRef(a)] = None,
           !.rg_state[ParentRef(a)] = "live",
           !.data = [v \in DOMAIN w.data |-> IF v \in mine THEN None ELSE w.data[v]],
           !.ref_guard = [v \in DOMAIN w.ref_guard |->
                            IF v \in mine THEN None ELSE w.ref_guard[v]],
           !.vg_state = [v \in DOMAIN w.vg_state |->
                            IF v \in mine THEN "live" ELSE w.vg_state[v]],
           !.wake_parent = [s \in DOMAIN w.wake_parent |->
                            IF s \in mine THEN None ELSE w.wake_parent[s]],
           !.activated = [s \in DOMAIN w.activated |->
                            IF s \in mine THEN FALSE ELSE w.activated[s]],
           !.array_state[a] = "live"]

\* WakeArray::new into the free slots of array a
WakeArray_new(w, a) ==
    LET mine == {Store(a, i) : i \in 1..ArrayLen(a)}
    IN  [w EXCEPT
           !.value_guard[ParentRef(a)] = None,
           !.rg_state[ParentRef(a)] = "live",
           !.data = [v \in DOMAIN w.data |-> IF v \in mine THEN None ELSE w.data[v]],
           !.ref_guard = [v \in DOMAIN w.ref_guard |->
                            IF v \in mine THEN None ELSE w.ref_guard[v]],
           !.vg_state = [v \in DOMAIN w.vg_state |->
                            IF v \in mine THEN "live" ELSE w.vg_state[v]],
           !.wake_parent = [s \in DOMAIN w.wake_parent |->
                            IF s \in mine THEN None ELSE w.wake_parent[s]],
           !.activated = [s \in DOMAIN w.activated |->
                            IF s \in mine THEN TRUE ELSE w.activated[s]],
           !.array_state[a] = "live"]

\* mutant: a parent that is registered is kept, the first registration wins
Mut_WakeArray_register_parent(w, a, vg) ==
    IF w.value_guard[ParentRef(a)] # None THEN w
    ELSE RefGuard_register(w, ParentRef(a), vg)

WakeArray_register_parent(w, a, vg) == RefGuard_register(w, ParentRef(a), vg)

\* WakeStore::new() into the free slot of a WakeStore outside a WakeArray
WakeStore_new(w, s) ==
    [w EXCEPT !.wake_parent[s] = None, !.activated[s] = TRUE,
              !.array_state[ArrayOf(s)] = "live"]

WakeStore_set_parent(w, s, rg) == [w EXCEPT !.wake_parent[s] = rg]

\* child_guard_ptr(index) for index = i - 1: None for an index that is not in
\* 0..N, else the cell's parent and the child guard's pointer are set and the
\* child guard is returned
WakeArray_child_guard_ptr(w, a, i) ==
    IF i > ArrayLen(a) THEN [w EXCEPT !.ret = NoneOpt]
    ELSE [ValueGuard_set(WakeStore_set_parent(w, Store(a, i), ParentRef(a)),
                         ChildGuard(a, i), Store(a, i))
            EXCEPT !.ret = Some(ChildGuard(a, i))]

\* mutant: take_woken reads the flag and leaves it set
Mut_WakeStore_take_woken(w, s) == w

\* take_woken: returns w.activated[s] and leaves the flag false
WakeStore_take_woken(w, s) == [w EXCEPT !.activated[s] = FALSE]

\* WakeArray::take_woken(index) for index = i - 1: None for an index that is
\* not in 0..N, else Some(take_woken of the cell)
WakeArray_take_woken(w, a, i) ==
    IF i > ArrayLen(a) THEN [w EXCEPT !.ret = NoneOpt]
    ELSE [WakeStore_take_woken(w, Store(a, i)) EXCEPT !.ret = Some(w.activated[Store(a, i)])]

\* DummyWaker::wake: only counted
DummyWaker_wake(w, h) == [w EXCEPT !.wakes[h] = @ + 1]

\* mutant: the parent cell is flagged and counted but does not forward in turn
Mut_Wake_wake(w, o) ==
    IF o \in Roots
    THEN DummyWaker_wake(w, o)
    ELSE IF Stale(o) /\ w.junk.fault
    THEN [w EXCEPT !.uaf = TRUE, !.fault = TRUE]
    ELSE IF Stale(o) /\ w.array_state[ArrayOf(AddrOf(o))] = "free"
    THEN [w EXCEPT !.uaf = TRUE, !.wakes[AddrOf(o)] = @ + 1]
    ELSE
      CHOOSE r1 \in
        {IF w1.wake_parent[AddrOf(o)] = None THEN w1
         ELSE IF Stale(w1.wake_parent[AddrOf(o)]) THEN [w1 EXCEPT !.uaf = TRUE]
         ELSE CHOOSE r2 \in
           {IF w2.value_guard[w1.wake_parent[AddrOf(o)]] = None THEN w2
            ELSE CHOOSE r3 \in
              {CHOOSE r4 \in
                 {IF p = None THEN w3
                  ELSE IF p \in Roots THEN DummyWaker_wake(w3, p)
                  ELSE IF Stale(p) /\ w3.junk.fault
                  THEN [w3 EXCEPT !.uaf = TRUE, !.fault = TRUE]
                  ELSE IF Stale(p) /\ w3.array_state[ArrayOf(AddrOf(p))] = "free"
                  THEN [w3 EXCEPT !.uaf = TRUE, !.wakes[AddrOf(p)] = @ + 1]
                  ELSE [w3 EXCEPT !.uaf = @ \/ Stale(p),
                                  !.activated[AddrOf(p)] = TRUE,
                                  !.wakes[AddrOf(p)] = @ + 1]
                    : p \in {w3.data[w2.value_guard[w1.wake_parent[AddrOf(o)]]]}} : TRUE
                 : w3 \in {DerefValueGuard(w2, w2.value_guard[w1.wake_parent[AddrOf(o)]])}} : TRUE
              : w2 \in {DerefRefGuard(w1, w1.wake_parent[AddrOf(o)])}} : TRUE
           : w1 \in {[w EXCEPT !.uaf = @ \/ Stale(o),
                               !.activated[AddrOf(o)] = TRUE,
                               !.wakes[AddrOf(o)] = @ + 1]}} : TRUE

\* Sequencing: CHOOSE r \in {e : x \in {s}} : TRUE is e evaluated on the memory
\* x that statement s left, s having run once.
\*
\* <dyn Wake>::wake on wake object o: DummyWaker::wake or WakeStore::wake.  The
\* WakeStore sets its flag, reads its parent RefGuard and forwards to the wake
\* object that the RefGuard's ValueGuard holds, if there is one.  The call
\* through a stale pointer (to a cell, or from a cell to its parent RefGuard)
\* is undefined behaviour, with the outcomes that w.junk chooses.  A wake()
\* that reaches a cell whose wake() is still on the call stack finds the
\* memory it found before and recurses until the stack overflows.
RECURSIVE Wake_wake(_, _)
Wake_wake(w, o) ==
    IF o \in Roots
    THEN DummyWaker_wake(w, o)
    ELSE IF Stale(o)
    THEN IF w.junk.fault
         THEN [w EXCEPT !.uaf = TRUE, !.fault = TRUE]
         ELSE IF w.array_state[ArrayOf(AddrOf(o))] = "live"
         THEN Wake_wake([w EXCEPT !.uaf = TRUE], AddrOf(o))
         ELSE IF AddrOf(o) \in w.stack
         THEN [w EXCEPT !.uaf = TRUE, !.wakes[AddrOf(o)] = @ + 1, !.overflow = TRUE]
         ELSE
           CHOOSE r1 \in
             {IF w1.junk.to = None THEN [w1 EXCEPT !.stack = w.stack]
              ELSE [Wake_wake(w1, w1.junk.to) EXCEPT !.stack = w.stack]
                : w1 \in {[w EXCEPT !.uaf = TRUE,
                                    !.wakes[AddrOf(o)] = @ + 1,
                                    !.stack = @ \cup {AddrOf(o)}]}} : TRUE
    ELSE IF o \in w.stack
    THEN [w EXCEPT !.wakes[o] = @ + 1, !.overflow = TRUE]
    ELSE
      CHOOSE r1 \in
        {IF w1.wake_parent[o] = None THEN [w1 EXCEPT !.stack = w.stack]
         ELSE IF Stale(w1.wake_parent[o]) /\ w1.junk.fault
         THEN [w1 EXCEPT !.uaf = TRUE, !.fault = TRUE, !.stack = w.stack]
         ELSE IF Stale(w1.wake_parent[o])
                   /\ w1.rg_state[AddrOf(w1.wake_parent[o])] = "free"
         THEN IF w1.junk.to = None
              THEN [w1 EXCEPT !.uaf = TRUE, !.stack = w.stack]
              ELSE [Wake_wake([w1 EXCEPT !.uaf = TRUE], w1.junk.to)
                      EXCEPT !.stack = w.stack]
         ELSE CHOOSE r2 \in
           {IF w2.value_guard[AddrOf(w1.wake_parent[o])] = None
            THEN [w2 EXCEPT !.stack = w.stack]
            ELSE CHOOSE r3 \in
              {IF w3.data[w2.value_guard[AddrOf(w1.wake_parent[o])]] = None
               THEN [w3 EXCEPT !.stack = w.stack]
               ELSE [Wake_wake(w3, w3.data[w2.value_guard[AddrOf(w1.wake_parent[o])]])
                       EXCEPT !.stack = w.stack]
                 : w3 \in {DerefValueGuard(
                             w2, w2.value_guard[AddrOf(w1.wake_parent[o])])}} : TRUE
              : w2 \in {[DerefRefGuard(w1, AddrOf(w1.wake_parent[o]))
                           EXCEPT !.uaf = @ \/ Stale(w1.wake_parent[o])]}} : TRUE
           : w1 \in {[w EXCEPT !.activated[o] = TRUE,
                               !.wakes[o] = @ + 1,
                               !.stack = @ \cup {o}]}} : TRUE

\* mutant: a wake through a handle sets the flag of every cell
Mut_local_wake(w, vg) ==
    CHOOSE r1 \in
      {IF w1.data[vg] = None THEN w1
       ELSE [Wake_wake(w1, w1.data[vg]) EXCEPT
               !.activated = [s \in DOMAIN w1.activated |-> TRUE]]
         : w1 \in {DerefValueGuard(w, vg)}} : TRUE

\* local_wake(guard): wake the object the ValueGuard holds, if any.  With a
\* reference to a handle that has been destroyed, the read of the handle is
\* undefined behaviour: the call faults, or finds no pointer or a pointer to
\* a wake object, as w.junk chooses.
local_wake(w, vg) ==
    IF w.vg_state[vg] \in {"free", "gone"}
    THEN IF w.junk.fault THEN [w EXCEPT !.uaf = TRUE, !.fault = TRUE]
         ELSE IF w.junk.to = None THEN [w EXCEPT !.uaf = TRUE]
         ELSE Wake_wake([w EXCEPT !.uaf = TRUE], w.junk.to)
    ELSE IF w.data[vg] = None THEN w
    ELSE Wake_wake(w, w.data[vg])

\* drop of a WakeArray: its fields are dropped in declaration order, the parent
\* RefGuard, then the child ValueGuards, then the cells
RECURSIVE DropChildren(_, _, _)
DropChildren(w, a, i) ==
    IF i > ArrayLen(a) THEN w
    ELSE DropChildren(ValueGuard_drop(w, ChildGuard(a, i)), a, i + 1)

WakeArray_drop(w, a) ==
    [DropChildren(RefGuard_drop(w, ParentRef(a)), a, 1) EXCEPT !.array_state[a] = "free"]

\* dummy_guard(): a ValueGuard holding a pointer to the root waker h
dummy_guard(w, h) == ValueGuard_new(w, h, h)

\* ------------------------------------------------ futures-util/src/wakers.rs
\* mutant: a new cell starts with its flag cleared
Mut_UtilWakeStore_new(w, s) == [w EXCEPT !.parent[s] = None, !.ready[s] = FALSE]

UtilWakeStore_new(w, s) == [w EXCEPT !.parent[s] = None, !.ready[s] = TRUE]

UtilWakeStore_set_parent(w, s, p) == [w EXCEPT !.parent[s] = p]

\* mutant: take_ready reads the flag and leaves it set
Mut_UtilWakeStore_take_ready(w, s) == w

\* take_ready: returns w.ready[s] and leaves the flag false
UtilWakeStore_take_ready(w, s) == [w EXCEPT !.ready[s] = FALSE]

\* FnWake::wake of a root: only counted
FnWake_wake(w, h) == [w EXCEPT !.wakes[h] = @ + 1]

\* mutant: the cell sets its flag and forwards to nobody
Mut_UtilWake_wake(w, o) ==
    IF o \in Roots
    THEN FnWake_wake(w, o)
    ELSE [w EXCEPT !.ready[o] = TRUE, !.wakes[o] = @ + 1]

\* mutant: the cell forwards only when its flag goes from false to true
RECURSIVE Mut_UtilWake_wake_once(_, _)
Mut_UtilWake_wake_once(w, o) ==
    IF o \in Roots
    THEN FnWake_wake(w, o)
    ELSE IF w.ready[o]
    THEN [w EXCEPT !.wakes[o] = @ + 1]
    ELSE
      CHOOSE r1 \in
        {IF w1.parent[o] = None THEN w1 ELSE Mut_UtilWake_wake_once(w1, w1.parent[o])
           : w1 \in {[w EXCEPT !.ready[o] = TRUE, !.wakes[o] = @ + 1]}} : TRUE

\* <dyn Wake>::wake on wake object o: FnWake::wake or WakeStore::wake.  A
\* wake() that reaches a cell whose wake() is still on the call stack recurses
\* until the stack overflows.
RECURSIVE UtilWake_wake(_, _)
UtilWake_wake(w, o) ==
    IF o \in Roots
    THEN FnWake_wake(w, o)
    ELSE IF o \in w.stack
    THEN [w EXCEPT !.wakes[o] = @ + 1, !.overflow = TRUE]
    ELSE
      CHOOSE r1 \in
        {IF w1.parent[o] = None THEN [w1 EXCEPT !.stack = w.stack]
         ELSE [UtilWake_wake(w1, w1.parent[o]) EXCEPT !.stack = w.stack]
           : w1 \in {[w EXCEPT !.ready[o] = TRUE, !.wakes[o] = @ + 1,
                               !.stack = @ \cup {o}]}} : TRUE

CommitCells(w) ==
    /\ activated' = w.activated
    /\ wake_parent' = w.wake_parent
    /\ array_state' = w.array_state
    /\ ready' = w.ready
    /\ parent' = w.parent
    /\ refs' = w.refs
    /\ wakes' = w.wakes
    /\ overflow' = w.overflow

\* ------------------------------------------------ pollable operations (tests)
Children == 1..NumChildren

\* ready_at[i] = Never: the operation returns Pending on every poll
Never == 0

\* The counting closures of the tests (maybe_done.rs tests::normal, join.rs and
\* race.rs tests::counters): x += 1; if x == n { Ready(x) } else { Pending }.
\* Returns <<new count, result>>; the result is Pending or Ready(x).
Pending == NoneOpt
Ready(x) == Some(x)
PollFn_poll(count, n) ==
    LET x == count + 1
    IN  <<x, IF x = n THEN Ready(x) ELSE Pending>>

\* The call record of the wrappers and combinators: the operation, the slot it
\* was made on (for a whole combinator the handle it was polled with), the
\* state it found, and the result: kind is "Ready", "Pending", "Some", "None" or "Panic".
Call(name, i, was, kind, out) ==
    [op |-> name, who |-> i, was |-> was, kind |-> kind, out |-> out]

NoCall == Call("none", None, "none", "none", NoneOpt)

\* the unit value ()
Unit == 0

\* the handle child j of a combinator is given when it is polled
HandleOf(j) == Store(1, j)

\* wake() through handle h: a &dyn Wake of wakers.rs, or a LocalWaker of wake.rs
Wake_via(w, h) ==
    IF variant = "wakers" THEN UtilWake_wake(w, h) ELSE local_wake(w, h)

\* The handle operation i wakes when it is polled with handle cx: none, cx
\* itself, or the handle of another child that has been polled before (and so
\* has been given its handle).
WakeTargetOf(w, i, cx) ==
    IF wake_target[i] = None THEN None
    ELSE IF wake_target[i] = i THEN cx
    ELSE IF w.inner_polls[wake_target[i]] > 0 THEN HandleOf(wake_target[i])
    ELSE None

\* The behaviours of the operations that are explored: an operation wakes no
\* handle, its own, or that of the next child (of the first, for the last).
NextChild(i) == (i % NumChildren) + 1
WakeTargets ==
    {f \in [Children -> {None} \cup Children] :
       \A i \in Children : f[i] \in {None, i, NextChild(i)}}

\* poll of operation i with handle cx: wake.wake(); then the counting closure
Op_poll(w, i, cx) ==
    CHOOSE r1 \in
      {[w1 EXCEPT !.inner_polls[i] = PollFn_poll(w1.inner_polls[i], ready_at[i])[1],
                  !.ret = PollFn_poll(w1.inner_polls[i], ready_at[i])[2]]
         : w1 \in {IF WakeTargetOf(w, i, cx) = None THEN w
                   ELSE Wake_via(w, WakeTargetOf(w, i, cx))}} : TRUE

\* ---------------------------------------------- futures-util/src/maybe_done.rs
\* mutant: a Done wrapper polls its inner operation again
Mut_MaybeDone_poll(w, i, cx) ==
    IF w.md_state[i] = "Gone"
    THEN [w EXCEPT !.panicked = TRUE, !.ret = Pending]
    ELSE
      LET w1 == Op_poll(w, i, cx)
      IN  IF w1.ret = Pending /\ w.md_state[i] = "Future" THEN w1
          ELSE [w1 EXCEPT !.md_state[i] = "Done", !.ret = Ready(Unit)]

\* mutant: a Gone wrapper answers a poll like a Done one
Mut_MaybeDone_poll_gone(w, i, cx) ==
    IF w.md_state[i] = "Future"
    THEN CHOOSE r1 \in
           {IF w1.ret = Pending THEN w1
            ELSE [w1 EXCEPT !.md_state[i] = "Done",
                            !.md_output[i] = w1.ret[1],
                            !.done_at[i] = w1.inner_polls[i],
                            !.ret = Ready(Unit)]
              : w1 \in {Op_poll(w, i, cx)}} : TRUE
    ELSE [w EXCEPT !.ret = Ready(Unit)]

MaybeDone_poll(w, i, cx) ==
    CASE w.md_state[i] = "Future" ->
           CHOOSE r1 \in
             {IF w1.ret = Pending THEN w1
              ELSE [w1 EXCEPT !.md_state[i] = "Done",
                              !.md_output[i] = w1.ret[1],
                              !.done_at[i] = w1.inner_polls[i],
                              !.ret = Ready(Unit)]
                : w1 \in {Op_poll(w, i, cx)}} : TRUE
      [] w.md_state[i] = "Done" -> [w EXCEPT !.ret = Ready(Unit)]
      [] w.md_state[i] = "Gone" -> [w EXCEPT !.panicked = TRUE, !.ret = Pending]

\* mutant: the output is copied out and the wrapper stays Done
Mut_MaybeDone_take_output(w, i) ==
    IF w.md_state[i] = "Done"
    THEN [w EXCEPT !.ret = Some(w.md_output[i])]
    ELSE [w EXCEPT !.ret = NoneOpt]

MaybeDone_take_output(w, i) ==
    IF w.md_state[i] = "Done"
    THEN [w EXCEPT !.md_state[i] = "Gone", !.md_output[i] = 0,
                   !.ret = Some(w.md_output[i])]
    ELSE [w EXCEPT !.ret = NoneOpt]

MaybeDone_is_done(w, i) == w.md_state[i] # "Future"

CommitTasks(w) ==
    /\ inner_polls' = w.inner_polls
    /\ md_state' = w.md_state
    /\ md_output' = w.md_output
    /\ done_at' = w.done_at
    /\ panicked' = w.panicked
    /\ ub' = w.ub

PollKind(w) ==
    IF w.panicked THEN "Panic" ELSE IF w.ret = Pending THEN "Pending" ELSE "Ready"

\* ------------------------------------------- futures-combinators/src/join.rs
\* the WakeArray of the combinator
JoinArray == 1

\* mutant: a wrapper counts as terminated only once its output has been taken
Mut_MaybeDone_is_terminated(w, i) == w.md_state[i] = "Gone"

\* FusedFuture::is_terminated of the MaybeDone that Join wraps its children in
\* (futures::future::MaybeDone of the futures crate, a dependency): false
\* for Future, true for Done and for Gone.
MaybeDone_is_terminated(w, i) == w.md_state[i] # "Future"

\* mutant: the conjunction short-circuits, a child after a child that is not
\* ready is not looked at
RECURSIVE Mut_Join_poll_children(_, _, _)
Mut_Join_poll_children(w, i, rdy) ==
    IF i > NumChildren \/ w.panicked \/ ~rdy
    THEN [w EXCEPT !.ret = IF rdy THEN Ready(Unit) ELSE Pending]
    ELSE
      LET s == Store(JoinArray, i)
          w1 == WakeArray_child_guard_ptr(w, JoinArray, i)
          w2 == WakeStore_take_woken(w1, s)
          w3 == IF w1.activated[s]
                THEN MaybeDone_poll(w2, i, ChildGuard(JoinArray, i)) ELSE w2
          r == IF w1.activated[s] THEN w3.ret # Pending ELSE w2.md_state[i] = "Gone"
      IN  Mut_Join_poll_children(w3, i + 1, rdy /\ r)

\* mutant: a child that has not completed is polled whether or not its cell
\* was woken
RECURSIVE Mut_Join_poll_children_unwoken(_, _, _)
Mut_Join_poll_children_unwoken(w, i, rdy) ==
    IF i > NumChildren \/ w.panicked
    THEN [w EXCEPT !.ret = IF rdy THEN Ready(Unit) ELSE Pending]
    ELSE
      CHOOSE r1 \in
        {IF w1.activated[Store(JoinArray, i)] \/ w1.md_state[i] = "Future"
         THEN CHOOSE r3 \in
           {Mut_Join_poll_children_unwoken(w3, i + 1, rdy /\ w3.ret # Pending)
              : w3 \in {MaybeDone_poll(WakeStore_take_woken(w1, Store(JoinArray, i)),
                                       i, ChildGuard(JoinArray, i))}} : TRUE
         ELSE CHOOSE r2 \in
           {Mut_Join_poll_children_unwoken(w2, i + 1,
                                           rdy /\ MaybeDone_is_terminated(w2, i))
              : w2 \in {WakeStore_take_woken(w1, Store(JoinArray, i))}} : TRUE
           : w1 \in {WakeArray_child_guard_ptr(w, JoinArray, i)}} : TRUE

\* mutant: a child that woke its own cell while it was polled and returned
\* Pending is polled a second time in the same call
RECURSIVE Mut_Join_poll_children_again(_, _, _)
Mut_Join_poll_children_again(w, i, rdy) ==
    IF i > NumChildren \/ w.panicked
    THEN [w EXCEPT !.ret = IF rdy THEN Ready(Unit) ELSE Pending]
    ELSE
      CHOOSE r1 \in
        {IF w1.activated[Store(JoinArray, i)]
         THEN CHOOSE r3 \in
           {IF w3.activated[Store(JoinArray, i)] /\ w3.ret = Pending
            THEN CHOOSE r4 \in
              {Mut_Join_poll_children_again(w4, i + 1, rdy /\ w4.ret # Pending)
                 : w4 \in {MaybeDone_poll(WakeStore_take_woken(w3, Store(JoinArray, i)),
                                          i, ChildGuard(JoinArray, i))}} : TRUE
            ELSE Mut_Join_poll_children_again(w3, i + 1, rdy /\ w3.ret # Pending)
              : w3 \in {MaybeDone_poll(WakeStore_take_woken(w1, Store(JoinArray, i)),
                                       i, ChildGuard(JoinArray, i))}} : TRUE
         ELSE CHOOSE r2 \in
           {Mut_Join_poll_children_again(w2, i + 1,
                                         rdy /\ MaybeDone_is_terminated(w2, i))
              : w2 \in {WakeStore_take_woken(w1, Store(JoinArray, i))}} : TRUE
           : w1 \in {WakeArray_child_guard_ptr(w, JoinArray, i)}} : TRUE

\* mutant: a child whose cell was not woken counts as ready
RECURSIVE Mut_Join_poll_children_skipped(_, _, _)
Mut_Join_poll_children_skipped(w, i, rdy) ==
    IF i > NumChildren \/ w.panicked
    THEN [w EXCEPT !.ret = IF rdy THEN Ready(Unit) ELSE Pending]
    ELSE
      CHOOSE r1 \in
        {IF w1.activated[Store(JoinArray, i)]
         THEN CHOOSE r3 \in
           {Mut_Join_poll_children_skipped(w3, i + 1, rdy /\ w3.ret # Pending)
              : w3 \in {MaybeDone_poll(WakeStore_take_woken(w1, Store(JoinArray, i)),
                                       i, ChildGuard(JoinArray, i))}} : TRUE
         ELSE CHOOSE r2 \in
           {Mut_Join_poll_children_skipped(w2, i + 1, rdy)
              : w2 \in {WakeStore_take_woken(w1, Store(JoinArray, i))}} : TRUE
           : w1 \in {WakeArray_child_guard_ptr(w, JoinArray, i)}} : TRUE

\* The loop over the children in declaration order: hand out the child guard,
\* take the woken flag, and poll the child if it was woken; rdy is the
\* conjunction so far.  A panic of a child poll ends the call.
RECURSIVE Join_poll_children(_, _, _)
Join_poll_children(w, i, rdy) ==
    IF i > NumChildren \/ w.panicked
    THEN [w EXCEPT !.ret = IF rdy THEN Ready(Unit) ELSE Pending]
    ELSE
      CHOOSE r1 \in
        {IF w1.activated[Store(JoinArray, i)]
         THEN CHOOSE r3 \in
           {Join_poll_children(w3, i + 1, rdy /\ w3.ret # Pending)
              : w3 \in {MaybeDone_poll(WakeStore_take_woken(w1, Store(JoinArray, i)),
                                       i, ChildGuard(JoinArray, i))}} : TRUE
         ELSE CHOOSE r2 \in
           {Join_poll_children(w2, i + 1, rdy /\ MaybeDone_is_terminated(w2, i))
              : w2 \in {WakeStore_take_woken(w1, Store(JoinArray, i))}} : TRUE
           : w1 \in {WakeArray_child_guard_ptr(w, JoinArray, i)}} : TRUE

\* mutant: the outputs are taken in reverse order
Mut_Join_take_outputs(w, i, acc) ==
    [w EXCEPT !.md_state = [j \in Children |-> "Gone"],
              !.md_output = [j \in Children |-> 0],
              !.ret = Ready([j \in Children |-> w.md_output[NumChildren + 1 - j]])]

\* take_output().unwrap_unchecked() of every child in declaration order; an
\* absent output is undefined behaviour
RECURSIVE Join_take_outputs(_, _, _)
Join_take_outputs(w, i, acc) ==
    IF i > NumChildren THEN [w EXCEPT !.ret = Ready(acc)]
    ELSE
      CHOOSE r1 \in
        {IF w1.ret = NoneOpt THEN [w1 EXCEPT !.ub = TRUE, !.ret = Pending]
         ELSE Join_take_outputs(w1, i + 1, Append(acc, w1.ret[1]))
           : w1 \in {MaybeDone_take_output(w, i)}} : TRUE

Join_poll(w, cx) ==
    IF debug_assertions /\ \E i \in Children : w.md_state[i] = "Gone"
    THEN [w EXCEPT !.panicked = TRUE, !.ret = Pending]
    ELSE
      CHOOSE r2 \in
        {IF w2.panicked \/ w2.ret = Pending THEN w2
         ELSE Join_take_outputs(w2, 1, <<>>)
           : w2 \in {Join_poll_children(CHOOSE w1 \in {WakeArray_register_parent(
                                                         w, JoinArray, cx)} : TRUE,
                                        1, TRUE)}} : TRUE

\* ------------------------------------------- futures-combinators/src/race.rs
\* the group of wake cells (Wakers) of the combinator
RaceArray == 1

\* a Race result: the tag (declaration index) of the winner and its output
Outputs(i, res) == <<i, res>>

\* mutant: the slots are scanned from the last to the first
RECURSIVE Mut_Race_poll_from(_, _, _)
Mut_Race_poll_from(w, i, wake) ==
    IF i > NumChildren THEN [w EXCEPT !.ret = Pending]
    ELSE
      LET k == NumChildren + 1 - i
          s == Store(RaceArray, k)
          w1 == [UtilWakeStore_set_parent(w, s, wake) EXCEPT !.refs[s] = s]
          w2 == UtilWakeStore_take_ready(w1, s)
          w3 == IF w1.ready[s] THEN Op_poll(w2, k, s) ELSE w2
      IN  IF w1.ready[s] /\ w3.ret # Pending
          THEN [w3 EXCEPT !.ret = Ready(Outputs(k, w3.ret[1]))]
          ELSE Mut_Race_poll_from(w3, i + 1, wake)

\* mutant: when a child wins, the flags of the slots after it are taken too
RECURSIVE Mut_Race_poll_from_sweep(_, _, _)
Mut_Race_poll_from_sweep(w, i, wake) ==
    IF i > NumChildren THEN [w EXCEPT !.ret = Pending]
    ELSE
      CHOOSE r1 \in
        {IF w1.ready[Store(RaceArray, i)]
         THEN CHOOSE r3 \in
           {IF w3.ret # Pending
            THEN [w3 EXCEPT !.ret = Ready(Outputs(i, w3.ret[1])),
                            !.ready = [s \in DOMAIN w3.ready |->
                                         IF s \in {Store(RaceArray, j) : j \in (i + 1)..NumChildren}
                                         THEN FALSE ELSE w3.ready[s]]]
            ELSE Mut_Race_poll_from_sweep(w3, i + 1, wake)
              : w3 \in {Op_poll(UtilWakeStore_take_ready(w1, Store(RaceArray, i)),
                                i, w1.refs[Store(RaceArray, i)])}} : TRUE
         ELSE CHOOSE r2 \in
           {Mut_Race_poll_from_sweep(w2, i + 1, wake)
              : w2 \in {UtilWakeStore_take_ready(w1, Store(RaceArray, i))}} : TRUE
           : w1 \in {[UtilWakeStore_set_parent(w, Store(RaceArray, i), wake)
                        EXCEPT !.refs[Store(RaceArray, i)] = Store(RaceArray, i)]}} : TRUE

\* Race::poll from slot i on: set the parent of the slot's cell, store the
\* reference to it, and poll the child if its flag was set; the first child
\* that returns Ready ends the call.
RECURSIVE Race_poll_from(_, _, _)
Race_poll_from(w, i, wake) ==
    IF i > NumChildren THEN [w EXCEPT !.ret = Pending]
    ELSE
      CHOOSE r1 \in
        {IF w1.ready[Store(RaceArray, i)]
         THEN CHOOSE r3 \in
           {IF w3.ret # Pending
            THEN [w3 EXCEPT !.ret = Ready(Outputs(i, w3.ret[1]))]
            ELSE Race_poll_from(w3, i + 1, wake)
              : w3 \in {Op_poll(UtilWakeStore_take_ready(w1, Store(RaceArray, i)),
                                i, w1.refs[Store(RaceArray, i)])}} : TRUE
         ELSE CHOOSE r2 \in
           {Race_poll_from(w2, i + 1, wake)
              : w2 \in {UtilWakeStore_take_ready(w1, Store(RaceArray, i))}} : TRUE
           : w1 \in {[UtilWakeStore_set_parent(w, Store(RaceArray, i), wake)
                        EXCEPT !.refs[Store(RaceArray, i)] = Store(RaceArray, i)]}} : TRUE

Race_poll(w, wake) == Race_poll_from(w, 1, wake)

\* the memory before anything has been constructed
FreeWorld ==
    [data |-> [v \in WakeObjects |-> None],
     ref_guard |-> [v \in WakeObjects |-> None],
     vg_state |-> [v \in WakeObjects |-> "free"],
     value_guard |-> [r \in WakeRefs |-> None],
     rg_state |-> [r \in WakeRefs |-> "free"],
     uaf |-> FALSE,
     activated |-> [s \in Stores |-> TRUE],
     wake_parent |-> [s \in Stores |-> None],
     array_state |-> [a \in Owners |-> "free"],
     ready |-> [s \in Stores |-> TRUE],
     parent |-> [s \in Stores |-> None],
     refs |-> [s \in Stores |-> None],
     wakes |-> NoWakes,
     overflow |-> FALSE,
     stack |-> {},
     junk |-> NoJunk,
     fault |-> FALSE,
     inner_polls |-> [i \in Children |-> 0],
     md_state |-> [i \in Children |-> "Future"],
     md_output |-> [i \in Children |-> 0],
     done_at |-> [i \in Children |-> 0],
     panicked |-> FALSE,
     ub |-> FALSE,
     ret |-> NoneOpt]

InitWorld(w) ==
    /\ data = w.data
    /\ ref_guard = w.ref_guard
    /\ vg_state = w.vg_state
    /\ value_guard = w.value_guard
    /\ rg_state = w.rg_state
    /\ uaf = w.uaf
    /\ activated = w.activated
    /\ wake_parent = w.wake_parent
    /\ array_state = w.array_state
    /\ ready = w.ready
    /\ parent = w.parent
    /\ refs = w.refs
    /\ wakes = w.wakes
    /\ overflow = w.overflow
    /\ inner_polls = w.inner_polls
    /\ md_state = w.md_state
    /\ md_output = w.md_output
    /\ done_at = w.done_at
    /\ panicked = w.panicked
    /\ ub = w.ub

\* no wake cell, operation or wrapper exists
InitNoTasks ==
    /\ inner_polls = <<>> /\ ready_at = <<>> /\ wake_target = <<>>
    /\ md_state = <<>> /\ md_output = <<>> /\ done_at = <<>>
    /\ panicked = FALSE /\ ub = FALSE /\ debug_assertions = TRUE
    /\ calls = 0 /\ lastCall = NoCall
    /\ activated = <<>> /\ wake_parent = <<>> /\ array_state = <<>>
    /\ ready = <<>> /\ parent = <<>> /\ refs = <<>> /\ wakes = <<>>
    /\ overflow = FALSE
    /\ loaded = [r \in RefGuards |-> None]
    /\ in_call = [r \in RefGuards |-> "idle"]
    /\ pending = [r \in RefGuards |-> None]

InitGuard ==
    /\ InitNoTasks
    /\ data = [v \in ValueGuards |-> 1]
    /\ ref_guard = [v \in ValueGuards |-> None]
    /\ vg_state = [v \in ValueGuards |-> "free"]
    /\ value_guard = [r \in RefGuards |-> None]
    /\ rg_state = [r \in RefGuards |-> "free"]
    /\ uaf = FALSE
    /\ variant \in Variants
    /\ lastOp = NoOp
    /\ severed = [r \in RefGuards |-> "no"]

\* The content of a slot is indeterminate once its object is gone (any read of
\* it is a use after free, see Get); the model keeps one fixed content for it.
Scrub(w) ==
    [w EXCEPT !.data = [v \in DOMAIN w.data |->
                          IF w.vg_state[v] = "free" THEN 1 ELSE w.data[v]]]

\* ValueGuard::new(x), pinned into a free slot
NewValueGuard(v, x) ==
    /\ vg_state[v] = "free"
    /\ Commit(ValueGuard_new(Heap, v, x))
    /\ lastOp' = NoOp
    /\ UNCHANGED <<variant, severed, nonGuardVars>>

\* RefGuard::new(), pinned into a free slot
NewRefGuard(r) ==
    /\ rg_state[r] = "free"
    /\ Commit(RefGuard_new(Heap, r))
    /\ lastOp' = NoOp
    /\ severed' = [severed EXCEPT ![r] = "no"]
    /\ UNCHANGED <<variant, nonGuardVars>>

\* weak.register(strong) / strong.registration().register(weak)
Register(r, v) ==
    /\ rg_state[r] = "live"
    /\ vg_state[v] = "live"
    /\ Commit(IF variant = "guard" THEN RefGuard_register(Heap, r, v)
              ELSE GuardRegistration_register(Heap, v, r))
    /\ lastOp' = IF value_guard[r] # None
                 THEN Op("register", value_guard[r], NoneOpt) ELSE NoOp
    /\ severed' = [q \in RefGuards |->
                     IF q = r THEN "no"
                     ELSE IF value_guard[q] = v THEN "replaced"
                     ELSE severed[q]]
    /\ UNCHANGED <<variant, nonGuardVars>>

\* strong.set(x)
Set(v, x) ==
    /\ vg_state[v] = "live"
    /\ Commit(ValueGuard_set(Heap, v, x))
    /\ lastOp' = NoOp
    /\ UNCHANGED <<variant, severed, nonGuardVars>>

\* weak.get(); a read through a dangling pointer may return anything
Get(r) ==
    /\ rg_state[r] = "live"
    /\ IF RefGuard_get_dangling(Heap, r)
       THEN /\ \E x \in Values : lastOp' = Op("get", r, Some(x))
            /\ Commit([Heap EXCEPT !.uaf = TRUE])
       ELSE /\ lastOp' = Op("get", r, RefGuard_get(Heap, r))
            /\ Commit(Heap)
    /\ UNCHANGED <<variant, severed, nonGuardVars>>

\* the ValueGuard goes out of scope
DropValueGuard(v) ==
    /\ vg_state[v] = "live"
    /\ Commit(Scrub(IF variant = "guard" THEN ValueGuard_drop(Heap, v)
                    ELSE Lib_ValueGuard_drop(Heap, v)))
    /\ lastOp' = IF ref_guard[v] # None
                 THEN Op("drop_value", ref_guard[v], NoneOpt) ELSE NoOp
    /\ severed' = [q \in RefGuards |->
                     IF value_guard[q] = v THEN "dropped" ELSE severed[q]]
    /\ UNCHANGED <<variant, nonGuardVars>>

\* the RefGuard goes out of scope
DropRefGuard(r) ==
    /\ rg_state[r] = "live"
    /\ Commit(IF variant = "guard" THEN RefGuard_drop(Heap, r)
              ELSE Lib_RefGuard_drop(Heap, r))
    /\ lastOp' = IF value_guard[r] # None
                 THEN Op("drop_ref", value_guard[r], NoneOpt) ELSE NoOp
    /\ severed' = [severed EXCEPT ![r] = "no"]
    /\ UNCHANGED <<variant, nonGuardVars>>

\* mem::forget of a heap-pinned ValueGuard: never dropped, its memory never reused
LeakValueGuard(v) ==
    /\ v \in HeapSlots
    /\ vg_state[v] = "live"
    /\ Commit([Heap EXCEPT !.vg_state[v] = "leaked"])
    /\ lastOp' = NoOp
    /\ UNCHANGED <<variant, severed, nonGuardVars>>

NextGuard ==
    \/ \E v \in ValueGuards, x \in Values : NewValueGuard(v, x)
    \/ \E r \in RefGuards : NewRefGuard(r)
    \/ \E r \in RefGuards, v \in ValueGuards : Register(r, v)
    \/ \E v \in ValueGuards, x \in Values : Set(v, x)
    \/ \E r \in RefGuards : Get(r)
    \/ \E v \in ValueGuards : DropValueGuard(v)
    \/ \E r \in RefGuards : DropRefGuard(r)
    \/ \E v \in ValueGuards : LeakValueGuard(v)

SpecGuard == InitGuard /\ [][NextGuard]_vars

\* What r.get() returns in the current state, when it reads no freed memory.
GetNow(r) == RefGuard_get(Heap, r)
Dangling(r) == RefGuard_get_dangling(Heap, r)

\* C3: once the ValueGuard a RefGuard reads through has been destroyed, every
\* get() on that RefGuard (until it is registered again) returns None, and
\* never a value that was stored in the destroyed ValueGuard.
C3_GetAfterValueDropIsNone ==
    /\ (lastOp.op = "get" /\ severed[lastOp.arg] = "dropped") => lastOp.ret = NoneOpt
    /\ \A r \in RefGuards :
         (rg_state[r] = "live" /\ severed[r] = "dropped") =>
             (~Dangling(r) /\ GetNow(r) = NoneOpt)

\* reached: a get() on a RefGuard whose ValueGuard was destroyed
C3_Witness ==
    /\ lastOp.op = "get"
    /\ severed[lastOp.arg] = "dropped"
    /\ lastOp.ret = NoneOpt

\* C4: when a second RefGuard is registered on a ValueGuard that is linked to a
\* first one, the first reads None from then on (until it is registered again)
\* and the second reads the ValueGuard's current value, also after every later
\* set(); no RefGuard other than the registered one reads through the ValueGuard.
C4_SecondRegistrationReplacesFirst ==
    /\ (lastOp.op = "get" /\ severed[lastOp.arg] = "replaced") => lastOp.ret = NoneOpt
    /\ \A r \in RefGuards :
         (rg_state[r] = "live" /\ severed[r] = "replaced") =>
             (~Dangling(r) /\ GetNow(r) = NoneOpt)
    /\ \A v \in ValueGuards :
         (vg_state[v] # "free" /\ ref_guard[v] # None) =>
             /\ GetNow(ref_guard[v]) = Some(data[v])
             /\ \A q \in RefGuards :
                  (rg_state[q] = "live" /\ value_guard[q] = v) => q = ref_guard[v]
    /\ \A v \in ValueGuards :
         (lastOp.op = "get" /\ vg_state[v] # "free" /\ ref_guard[v] = lastOp.arg) =>
             lastOp.ret = Some(data[v])

\* reached: R1 was replaced on V by R2, V was set to 2, and R2.get() returned Some(2)
C4_Witness ==
    \E r1, r2 \in RefGuards, v \in ValueGuards :
        /\ r1 # r2
        /\ rg_state[r1] = "live" /\ severed[r1] = "replaced"
        /\ ref_guard[v] = r2 /\ data[v] = 2
        /\ lastOp = Op("get", r2, Some(2))

\* C5: no surviving guard holds a link to a destroyed guard: the drop of a
\* linked guard clears its partner's link, and no call ever touches freed memory.
C5_DropClearsPartnerLink ==
    /\ \A v \in ValueGuards :
         (vg_state[v] # "free" /\ ref_guard[v] # None) => rg_state[ref_guard[v]] # "free"
    /\ \A r \in RefGuards :
         (rg_state[r] # "free" /\ value_guard[r] # None) =>
             vg_state[value_guard[r]] # "free"
    /\ lastOp.op = "drop_ref" => ref_guard[lastOp.arg] = None
    /\ lastOp.op = "drop_value" => value_guard[lastOp.arg] = None
    /\ ~uaf

\* reached: a RefGuard linked to a live ValueGuard has just been destroyed
C5_Witness ==
    /\ lastOp.op = "drop_ref"
    /\ vg_state[lastOp.arg] = "live"

\* r reads through v: both exist and point at each other
Linked(r, v) ==
    /\ rg_state[r] = "live"
    /\ vg_state[v] # "free"
    /\ value_guard[r] = v
    /\ ref_guard[v] = r

\* C11: while a RefGuard r is linked to a ValueGuard v and the step neither
\* destroys nor re-registers either of them, the link stays as it is and
\* r.get() reads no freed memory; what r.get() returns changes only by a
\* v.set(x), to Some(x); a get() returns that value and changes nothing; and
\* this also holds once v has been leaked.
C11_LinkedGetReturnsLastSet ==
    [][\A r \in RefGuards, v \in ValueGuards :
         (/\ Linked(r, v)
          /\ rg_state'[r] = "live"
          /\ vg_state'[v] # "free"
          /\ ~\E q \in RefGuards, u \in ValueGuards :
                 (q = r \/ u = v) /\ Register(q, u)) =>
            /\ Linked(r, v)'
            /\ ~Dangling(r)'
            /\ GetNow(r) = Some(data[v])
            /\ \A x \in Values : Set(v, x) => GetNow(r)' = Some(x)
            /\ (~\E x \in Values : Set(v, x)) => GetNow(r)' = GetNow(r)
            /\ Get(r) => lastOp' = Op("get", r, GetNow(r))]_vars

\* reached: a get() through a link to a leaked ValueGuard returned its value
C11_Witness ==
    \E r \in RefGuards, v \in ValueGuards :
        /\ Linked(r, v)
        /\ vg_state[v] = "leaked"
        /\ data[v] = MaxValue
        /\ lastOp = Op("get", r, Some(MaxValue))

\* C33: registering a RefGuard r that is linked to ValueGuard v1 on another
\* ValueGuard v2 empties v1's reference slot and links r and v2, so that
\* r.get() returns v2's value; and while r is linked to v2, a set() or the
\* destruction of another ValueGuard whose slot is empty leaves that link and
\* the value r.get() returns as they are.
C33_MovedRefGuardLeavesOldValueGuard ==
    [][\A r \in RefGuards, v1, v2 \in ValueGuards :
         /\ (v1 # v2 /\ Linked(r, v1) /\ Register(r, v2)) =>
              /\ ref_guard'[v1] = None
              /\ Linked(r, v2)'
              /\ ~Dangling(r)'
              /\ GetNow(r)' = Some(data[v2])
              /\ lastOp' = Op("register", v1, NoneOpt)
         /\ (v1 # v2 /\ Linked(r, v2) /\ vg_state[v1] = "live" /\ ref_guard[v1] = None
               /\ (DropValueGuard(v1) \/ \E x \in Values : Set(v1, x))) =>
              /\ Linked(r, v2)'
              /\ ~Dangling(r)'
              /\ GetNow(r)' = Some(data[v2])
              /\ GetNow(r)' = GetNow(r)]_vars

\* reached: a RefGuard was moved from a ValueGuard holding 1 to a ValueGuard
\* holding 2 (guard.rs); the first has an empty slot and the RefGuard reads 2
C33_Witness ==
    /\ variant = "guard"
    /\ lastOp.op = "register"
    /\ vg_state[lastOp.arg] = "live"
    /\ ref_guard[lastOp.arg] = None
    /\ data[lastOp.arg] = 1
    /\ \E r \in RefGuards, v2 \in ValueGuards \ {lastOp.arg} :
         Linked(r, v2) /\ GetNow(r) = Some(2)

\* C34: registering a RefGuard r on the ValueGuard v it is already linked to
\* leaves r and v linked in both directions and every other guard as it was,
\* and r.get() returns Some of v's current value afterwards; in guard.rs
\* (RefGuard::register) and in lib.rs (GuardRegistration::register).
C34_RegisterOnLinkedPairKeepsLink ==
    [][\A r \in RefGuards, v \in ValueGuards :
         (Linked(r, v) /\ Register(r, v)) =>
            /\ Linked(r, v)'
            /\ ~Dangling(r)'
            /\ GetNow(r)' = Some(data[v])
            /\ ref_guard' = ref_guard
            /\ value_guard' = value_guard
            /\ data' = data
            /\ ~uaf']_vars

\* reached: in lib.rs a RefGuard has been registered on the ValueGuard it was
\* linked to, whose value had been set to 2, and reads 2
C34_Witness ==
    /\ variant = "lib"
    /\ lastOp.op = "register"
    /\ \E r \in RefGuards :
         /\ Linked(r, lastOp.arg)
         /\ data[lastOp.arg] = 2
         /\ GetNow(r) = Some(2)

\* C32: in every reachable state of the single-threaded pair (both
\* implementations) links are symmetric: an existing ValueGuard v records an
\* existing RefGuard r exactly if r records v, neither records a destroyed
\* guard, and so no two RefGuards record the same ValueGuard and no two
\* ValueGuards the same RefGuard.
C32_LinksAreSymmetric ==
    /\ \A v \in ValueGuards :
         (vg_state[v] # "free" /\ ref_guard[v] # None) =>
             /\ rg_state[ref_guard[v]] = "live"
             /\ value_guard[ref_guard[v]] = v
    /\ \A r \in RefGuards :
         (rg_state[r] = "live" /\ value_guard[r] # None) =>
             /\ vg_state[value_guard[r]] # "free"
             /\ ref_guard[value_guard[r]] = r
    /\ \A r1, r2 \in RefGuards :
         (rg_state[r1] = "live" /\ rg_state[r2] = "live"
            /\ value_guard[r1] # None /\ value_guard[r1] = value_guard[r2]) => r1 = r2
    /\ \A v1, v2 \in ValueGuards :
         (vg_state[v1] # "free" /\ vg_state[v2] # "free"
            /\ ref_guard[v1] # None /\ ref_guard[v1] = ref_guard[v2]) => v1 = v2

\* reached: two pairs linked crosswise at the same time, and a get() through
\* one of them returned the value of its own ValueGuard
C32_Witness ==
    /\ variant = "lib"
    /\ Linked(1, 2)
    /\ Linked(2, 1)
    /\ data[1] # data[2]
    /\ lastOp = Op("get", 1, Some(data[2]))

\* ======================================================== the atomic guard pair
\* lifetime-guard/src/atomic_guard.rs: AtomicValueGuard keeps its fields in a
\* critical_section::Mutex, AtomicRefGuard keeps its pointer in a plain Cell.
\* Every RefGuard is used by one thread, the ValueGuards by others.  A closure
\* passed to critical_section::with runs under mutual exclusion and is one
\* step; an access to the Cell of a RefGuard outside a critical section is a
\* step of its own; new() and set() are those of guard.rs with the Cell
\* behind the Mutex.

\* replace_ref_guard: one critical section
AtomicValueGuard_replace_ref_guard(w, v, rg) ==
    LET old == w.ref_guard[v]
        w1 == [w EXCEPT !.ref_guard[v] = rg]
    IN  IF old # None
        THEN [DerefRefGuard(w1, old) EXCEPT !.value_guard[old] = None]
        ELSE w1

\* invalidate_ref_guard: one critical section
AtomicValueGuard_invalidate_ref_guard(w, v) ==
    [DerefValueGuard(w, v) EXCEPT !.ref_guard[v] = None]

\* replace_value_guard, line 136: self.value_guard.replace(vg) is a read of
\* the Cell followed by a write of it, outside any critical section.  This is
\* the write; the pointer read before is in loaded[r].
AtomicRefGuard_replace_value_guard(w, r, vg) == [w EXCEPT !.value_guard[r] = vg]

InitAtomic ==
    /\ InitNoTasks
    /\ data = [v \in ValueGuards |-> 1]
    /\ ref_guard = [v \in ValueGuards |-> None]
    /\ vg_state = [v \in ValueGuards |-> "free"]
    /\ value_guard = [r \in RefGuards |-> None]
    /\ rg_state = [r \in RefGuards |-> "free"]
    /\ uaf = FALSE
    /\ variant = "atomic"
    /\ lastOp = NoOp
    /\ severed = [r \in RefGuards |-> "no"]

AtomicFrame ==
    UNCHANGED <<variant, opVars, mdVars, cellVars>>

\* weak.register(strong), first statement: value_guard.replace_ref_guard(Some(self)),
\* one critical section.  The call borrows the ValueGuard until it returns.
AtomicRegister(r, v) ==
    /\ rg_state[r] = "live"
    /\ vg_state[v] = "live"
    /\ in_call[r] = "idle"
    /\ Commit(AtomicValueGuard_replace_ref_guard(Heap, v, r))
    /\ in_call' = [in_call EXCEPT ![r] = "register"]
    /\ pending' = [pending EXCEPT ![r] = v]
    /\ loaded' = loaded
    /\ lastOp' = NoOp
    /\ severed' = [q \in RefGuards |->
                     IF q # r /\ ref_guard[v] = q THEN "replaced" ELSE severed[q]]
    /\ AtomicFrame

\* weak.register(strong), second statement: self.replace_value_guard(Some(v)),
\* the read half of the replace of the Cell
AtomicReplaceLoad(r) ==
    /\ in_call[r] = "register"
    /\ Commit(Heap)
    /\ in_call' = [in_call EXCEPT ![r] = "store"]
    /\ loaded' = [loaded EXCEPT ![r] = value_guard[r]]
    /\ pending' = pending
    /\ lastOp' = NoOp
    /\ severed' = severed
    /\ AtomicFrame

\* The AtomicRefGuard goes out of scope on its owner's thread: drop() runs
\* replace_value_guard(None); this is the read half of the replace of the Cell.
AtomicDropRefGuard(r) ==
    /\ rg_state[r] = "live"
    /\ in_call[r] = "idle"
    /\ Commit(Heap)
    /\ in_call' = [in_call EXCEPT ![r] = "drop_store"]
    /\ loaded' = [loaded EXCEPT ![r] = value_guard[r]]
    /\ pending' = pending
    /\ lastOp' = NoOp
    /\ severed' = severed
    /\ AtomicFrame

\* replace_value_guard of a register() or a drop(): the write half of the
\* replace of the Cell.  With no old pointer taken out the call returns; after
\* a drop() the RefGuard is destroyed and its memory not yet released.
AtomicReplaceStore(r) ==
    /\ in_call[r] \in {"store", "drop_store"}
    /\ Commit([AtomicRefGuard_replace_value_guard(Heap, r, pending[r])
                 EXCEPT !.rg_state[r] = IF in_call[r] = "drop_store" /\ loaded[r] = None
                                        THEN "dropped" ELSE "live"])
    /\ in_call' = [in_call EXCEPT ![r] = IF loaded[r] = None THEN "idle"
                                         ELSE IF in_call[r] = "store" THEN "replace"
                                         ELSE "drop"]
    /\ pending' = [pending EXCEPT ![r] = None]
    /\ loaded' = loaded
    /\ lastOp' = NoOp
    /\ severed' = IF in_call[r] = "store" THEN [severed EXCEPT ![r] = "no"] ELSE severed
    /\ AtomicFrame

\* replace_value_guard, line 137, of a register() or a drop(): the critical
\* section (*guard.as_ptr()).invalidate_ref_guard() on the pointer taken out of
\* the Cell.  Then register() returns; drop() returns, the RefGuard is
\* destroyed and its memory not yet released.
AtomicInvalidate(r) ==
    /\ in_call[r] \in {"replace", "drop"}
    /\ Commit([AtomicValueGuard_invalidate_ref_guard(Heap, loaded[r])
                 EXCEPT !.rg_state[r] = IF in_call[r] = "drop" THEN "dropped" ELSE "live"])
    /\ in_call' = [in_call EXCEPT ![r] = "idle"]
    /\ loaded' = [loaded EXCEPT ![r] = None]
    /\ pending' = pending
    /\ lastOp' = IF in_call[r] = "drop" THEN Op("drop_ref", loaded[r], NoneOpt)
                 ELSE Op("register", loaded[r], NoneOpt)
    /\ severed' = severed
    /\ AtomicFrame

\* The memory of a destroyed AtomicRefGuard is released, some time after its
\* drop() has returned.
AtomicReleaseRefGuard(r) ==
    /\ rg_state[r] = "dropped"
    /\ Commit([Heap EXCEPT !.rg_state[r] = "free", !.value_guard[r] = None])
    /\ lastOp' = NoOp
    /\ UNCHANGED threadVars
    /\ severed' = severed
    /\ AtomicFrame

\* weak.get(), first half: self.value_guard.get().  With no pointer the call
\* returns None; with a pointer the closure of map() is entered.
AtomicGetLoad(r) ==
    /\ rg_state[r] = "live"
    /\ in_call[r] = "idle"
    /\ loaded' = [loaded EXCEPT ![r] = value_guard[r]]
    /\ in_call' = [in_call EXCEPT ![r] = IF value_guard[r] = None THEN "idle" ELSE "get"]
    /\ pending' = pending
    /\ lastOp' = IF value_guard[r] = None THEN Op("get", r, NoneOpt) ELSE NoOp
    /\ Commit(Heap)
    /\ severed' = severed
    /\ AtomicFrame

\* weak.get(), second half: (*guard.as_ptr()).get(), the critical section that
\* reads the data cell through the pointer read before.  A read of released
\* memory may return anything.
AtomicGetRead(r) ==
    /\ in_call[r] = "get"
    /\ loaded' = [loaded EXCEPT ![r] = None]
    /\ in_call' = [in_call EXCEPT ![r] = "idle"]
    /\ pending' = pending
    /\ IF vg_state[loaded[r]] = "free"
       THEN /\ \E x \in Values : lastOp' = Op("get", r, Some(x))
            /\ Commit([Heap EXCEPT !.uaf = TRUE])
       ELSE /\ lastOp' = Op("get", r, Some(data[loaded[r]]))
            /\ Commit(Heap)
    /\ severed' = severed
    /\ AtomicFrame

\* The AtomicValueGuard goes out of scope on its owner's thread: drop() runs
\* replace_ref_guard(None), one critical section, and returns; the ValueGuard
\* is destroyed and its memory not yet released.  It is not borrowed by a
\* register() in progress.
AtomicDropValueGuard(v) ==
    /\ vg_state[v] = "live"
    /\ \A r \in RefGuards : pending[r] # v
    /\ Commit([AtomicValueGuard_replace_ref_guard(Heap, v, None)
                 EXCEPT !.vg_state[v] = "dropped"])
    /\ lastOp' = IF ref_guard[v] # None
                 THEN Op("drop_value", ref_guard[v], NoneOpt) ELSE NoOp
    /\ UNCHANGED threadVars
    /\ severed' = [q \in RefGuards |->
                     IF ref_guard[v] = q THEN "dropped" ELSE severed[q]]
    /\ AtomicFrame

\* The memory of a destroyed AtomicValueGuard is released, some time after its
\* drop() has returned.
AtomicReleaseValueGuard(v) ==
    /\ vg_state[v] = "dropped"
    /\ Commit(Scrub([Heap EXCEPT !.vg_state[v] = "free"]))
    /\ lastOp' = NoOp
    /\ UNCHANGED threadVars
    /\ severed' = severed
    /\ AtomicFrame

NextAtomic ==
    \/ \E v \in ValueGuards, x \in Values : NewValueGuard(v, x)
    \/ \E r \in RefGuards : NewRefGuard(r)
    \/ \E r \in RefGuards, v \in ValueGuards : AtomicRegister(r, v)
    \/ \E r \in RefGuards : AtomicReplaceLoad(r)
    \/ \E r \in RefGuards : AtomicReplaceStore(r)
    \/ \E r \in RefGuards : AtomicInvalidate(r)
    \/ \E v \in ValueGuards, x \in Values : Set(v, x)
    \/ \E r \in RefGuards : AtomicGetLoad(r)
    \/ \E r \in RefGuards : AtomicGetRead(r)
    \/ \E v \in ValueGuards : AtomicDropValueGuard(v)
    \/ \E v \in ValueGuards : AtomicReleaseValueGuard(v)
    \/ \E r \in RefGuards : AtomicDropRefGuard(r)
    \/ \E r \in RefGuards : AtomicReleaseRefGuard(r)

SpecAtomic == InitAtomic /\ [][NextAtomic]_vars

\* C21: an AtomicRefGuard::get() that runs while the owner of its linked
\* AtomicValueGuard destroys it on another thread returns None or the value
\* the cell held before the destruction; no get() reads the data cell of an
\* AtomicValueGuard whose destruction has completed.
C21_Counterexample ==
    [][\A r \in RefGuards :
          (variant = "atomic" /\ AtomicGetRead(r)) => vg_state[loaded[r]] = "live"]_vars

\* C39: when an AtomicRefGuard r2 is registered on an AtomicValueGuard v while
\* the AtomicRefGuard r1 linked to v is destroyed on another thread (r1 has
\* taken its pointer to v out of its cell, then the registration has replaced
\* r1 in v), the step that completes the destruction of r1 does not erase v's
\* record of r2, and
\* once the registration of r2 has returned too, v and r2 are linked in both
\* directions.
C39_Counterexample ==
    [][\A r1 \in RefGuards, v \in ValueGuards : \A r2 \in RefGuards \ {r1} :
          (/\ variant = "atomic"
           /\ in_call[r1] = "drop"
           /\ loaded[r1] = v
           /\ severed[r1] = "replaced"
           /\ vg_state[v] = "live"
           /\ ref_guard[v] = r2
           /\ AtomicInvalidate(r1))
              => /\ ref_guard'[v] = r2
                 /\ in_call'[r2] = "idle" => Linked(r2, v)']_vars

\* ================================================================ wake cells
\* The two WakeStore implementations driven through their public operations:
\* variant "wake" is WakeArray / WakeStore of futures-combinators/src/wake.rs on
\* the guard pair of guard.rs, variant "wakers" is WakeStore of
\* futures-util/src/wakers.rs.
WakeVariants == {"wake", "wakers"}

ConfigIdle ==
    /\ lastOp = NoOp
    /\ severed = [r \in Arrays |-> "no"]
    /\ lastCall = NoCall
    /\ calls = 0
    /\ loaded = <<>>
    /\ in_call = <<>>
    /\ pending = <<>>

InitWake ==
    /\ InitWorld(FreeWorld)
    /\ ConfigIdle
    /\ variant \in WakeVariants
    /\ debug_assertions = TRUE
    /\ ready_at = [i \in Children |-> Never]
    /\ wake_target = [i \in Children |-> None]

\* the objects of wake.rs that are driven on their own: root handles, the
\* WakeArrays other than a combinator's, and their cells and handles
WakeArrays == Arrays \ {1}
WakeRoots == 1..NumWakeRoots
WakeHandles == WakeRoots \cup UNION {{ChildGuard(a, i) : i \in 1..ArrayLen(a)} : a \in WakeArrays}
WakeCells == (WakeHandles \ WakeRoots) \cup LooseStores

\* The content of the slots of destroyed objects is indeterminate; the model
\* keeps one fixed content for it.  A pointer that a live handle holds to a
\* destroyed cell is stale from then on, and so is the pointer a live cell
\* holds to a destroyed RefGuard.
ScrubWake(w) ==
    [w EXCEPT
       !.data = [v \in DOMAIN w.data |->
                   IF w.vg_state[v] # "live" THEN None
                   ELSE IF w.data[v] \in Stores /\ w.array_state[ArrayOf(w.data[v])] = "free"
                   THEN StalePtr(w.data[v])
                   ELSE w.data[v]],
       !.wake_parent = [s \in DOMAIN w.wake_parent |->
                   IF w.array_state[ArrayOf(s)] = "free" THEN None
                   ELSE IF w.wake_parent[s] \in WakeRefs
                          /\ w.rg_state[w.wake_parent[s]] = "free"
                   THEN StalePtr(w.wake_parent[s])
                   ELSE w.wake_parent[s]],
       !.activated = [s \in DOMAIN w.activated |->
                   IF w.array_state[ArrayOf(s)] = "free" THEN TRUE ELSE w.activated[s]]]

\* history: the handles destroyed in a step are gone, and no longer free: the
\* holder of a Waker made from a handle (futures-compat guard_to_waker) keeps
\* the pointer to it
Released(w) ==
    [w EXCEPT !.vg_state = [v \in DOMAIN w.vg_state |->
                              IF w.vg_state[v] # "live" /\ vg_state[v] = "live"
                              THEN "gone" ELSE w.vg_state[v]]]

\* the memory at the start of a step: no wake() call has been made in it yet
Fresh == [World EXCEPT !.wakes = NoWakes]

\* the memory at the start of a call on the wake cells of wake.rs, where a
\* call through a stale pointer would find j
FreshCall(j) == [World EXCEPT !.wakes = NoWakes, !.uaf = FALSE, !.junk = j]

\* the outcomes undefined behaviour can have in a call that would run into
\* it (dry): a forward read from released memory goes to nothing or to a
\* wake object that exists
StaleOutcomes(dry) ==
    IF dry.uaf
    THEN {j \in Junk :
            \/ j.to \in {None} \cup WakeRoots
            \/ j.to \in WakeCells /\ array_state[ArrayOf(j.to)] = "live"}
    ELSE {NoJunk}

\* a call through a stale pointer has faulted or the stack has overflowed: the
\* process has been terminated
Terminated == overflow \/ lastCall.kind = "Fault"

WakeFrame ==
    UNCHANGED <<variant, lastOp, severed, opVars, md_state, md_output, panicked, ub,
                debug_assertions, calls, done_at, threadVars>>

\* how a call that may wake ended: it returned ("none"), the stack overflowed,
\* it faulted on a stale pointer, or it called through a stale pointer and
\* returned
WakeKind(w) ==
    IF w.overflow THEN "Overflow"
    ELSE IF w.fault THEN "Fault"
    ELSE IF w.uaf THEN "UseAfterFree"
    ELSE "none"

\* the number of objects that exist or that a kept pointer still refers to,
\* and the slots of S an object can be created in: none when there are MaxLive
LiveCount ==
    Cardinality({h \in WakeObjects : vg_state[h] = "gone"})
      + Cardinality({h \in Roots : vg_state[h] = "live"})
      + Cardinality({a \in Owners : array_state[a] = "live"})
      + Cardinality({r \in LooseRefs : rg_state[r] = "live"})

Room(S) == IF LiveCount < MaxLive THEN S ELSE {}

\* history: the RefGuards that lose their link in the drop of handles vgs
LinksOf(vgs) == {ref_guard[v] : v \in vgs} \ {None}

\* history: whether the step before took the link of RefGuard r away, by the
\* registration of another RefGuard with its handle or by the handle's drop
SeveredBefore(r) ==
    IF lastCall.op = "register"
    THEN IF lastCall.was.took = r THEN "replaced" ELSE "no"
    ELSE IF lastCall.op \in {"drop_root", "drop_array"}
    THEN IF r \in lastCall.was.refs THEN "dropped" ELSE "no"
    ELSE "no"

\* history of a wake() on cell c: the flag it found, and whether the step
\* before severed the link of the RefGuard the cell forwards through
WakeBefore(c) ==
    IF c \notin Stores THEN [flag |-> "none", link |-> "no"]
    ELSE [flag |-> IF activated[c] THEN "set" ELSE "clear",
          link |-> IF wake_parent[c] \in WakeRefs
                   THEN SeveredBefore(wake_parent[c]) ELSE "no"]

\* let guard = pin!(dummy_guard())
NewRoot(h) ==
    /\ variant = "wake"
    /\ ~Terminated
    /\ vg_state[h] # "live"
    /\ \E w0 \in {FreshCall(NoJunk)} : \E w \in {dummy_guard(w0, h)} :
         Commit(w) /\ CommitCells(w)
    /\ lastCall' = NoCall
    /\ WakeFrame

\* the root handle goes out of scope
DropRoot(h) ==
    /\ variant = "wake"
    /\ ~Terminated
    /\ vg_state[h] = "live"
    /\ \E w0 \in {FreshCall(NoJunk)} : \E w \in {Released(ScrubWake(ValueGuard_drop(w0, h)))} :
         Commit(w) /\ CommitCells(w)
    /\ lastCall' = Call("drop_root", h, [parent |-> None, refs |-> LinksOf({h})],
                        "none", NoneOpt)
    /\ WakeFrame

NewArray(a) ==
    /\ variant = "wake"
    /\ ~Terminated
    /\ array_state[a] = "free"
    /\ \E w0 \in {FreshCall(NoJunk)} : \E w \in {WakeArray_new(w0, a)} :
         Commit(w) /\ CommitCells(w)
    /\ lastCall' = NoCall
    /\ WakeFrame

DropArray(a) ==
    /\ variant = "wake"
    /\ ~Terminated
    /\ array_state[a] = "live"
    /\ \E w0 \in {FreshCall(NoJunk)} : \E w \in {Released(ScrubWake(WakeArray_drop(w0, a)))} :
         Commit(w) /\ CommitCells(w)
    /\ lastCall' = Call("drop_array", a,
                        [parent |-> value_guard[ParentRef(a)],
                         refs |-> LinksOf({ChildGuard(a, i) : i \in 1..ArrayLen(a)})
                                    \ {ParentRef(a)}],
                        "none", NoneOpt)
    /\ WakeFrame

\* history of r.register(vg): the RefGuard that vg recorded before, if it
\* was another one
RegisterCall(r, vg) ==
    IF ref_guard[vg] \in WakeRefs \ {r}
    THEN Call("register", r, [took |-> ref_guard[vg]], "none", NoneOpt)
    ELSE NoCall

\* register_parent with any live handle: a root handle or a child guard of any
\* array, the array's own included
RegisterParent(a, vg) ==
    /\ variant = "wake"
    /\ ~Terminated
    /\ array_state[a] = "live"
    /\ vg_state[vg] = "live"
    /\ \E w0 \in {FreshCall(NoJunk)} : \E w \in {WakeArray_register_parent(w0, a, vg)} :
         Commit(w) /\ CommitCells(w)
    /\ lastCall' = RegisterCall(ParentRef(a), vg)
    /\ WakeFrame

\* child_guard_ptr(i - 1); an index out of range returns None
ChildGuardPtr(a, i) ==
    /\ variant = "wake"
    /\ ~Terminated
    /\ array_state[a] = "live"
    /\ \E w0 \in {FreshCall(NoJunk)} : \E w \in {WakeArray_child_guard_ptr(w0, a, i)} :
         /\ Commit(w) /\ CommitCells(w)
         /\ lastCall' = IF w.ret = NoneOpt
                        THEN Call("child_guard_ptr", None, "none", "None", NoneOpt)
                        ELSE NoCall
    /\ WakeFrame

\* the pointers the holder of a handle can store with set(): none, the
\* pointer to a root waker, or the pointer to any cell, also one kept from a
\* cell that has since been destroyed
SetValues == {None} \cup WakeRoots \cup WakeCells

\* the live handles that hold a pointer other than the one they were given by
\* dummy_guard() or by the last child_guard_ptr()
Redirected ==
    {v \in WakeHandles :
       /\ vg_state[v] = "live"
       /\ data[v] # None
       /\ data[v] # (IF v \in Roots \/ wake_parent[v] # None THEN v ELSE None)}

\* the handles set() is called on in this state: any live handle, as long as
\* no more than MaxRedirected handles are redirected at a time
SetTargets ==
    {vg \in WakeHandles :
       vg_state[vg] = "live" /\ Cardinality(Redirected \ {vg}) < MaxRedirected}

\* ValueGuard::set(x) on a handle, which its holder has by shared reference;
\* a pointer to a cell that does not exist is stale
SetHandle(vg, x) ==
    /\ variant = "wake"
    /\ ~Terminated
    /\ vg_state[vg] = "live"
    /\ \E w0 \in {FreshCall(NoJunk)} :
       \E w \in {ValueGuard_set(w0, vg,
                                IF x \in Stores /\ array_state[ArrayOf(x)] = "free"
                                THEN StalePtr(x) ELSE x)} :
         Commit(w) /\ CommitCells(w)
    /\ lastCall' = NoCall
    /\ WakeFrame

\* what the step before did to cell s: took its flag, woke it, or neither
CallBefore(s) ==
    IF lastCall.op \in {"take_woken", "take_ready"} /\ lastCall.who = s THEN "take"
    ELSE IF wakes[s] > 0 THEN "wake"
    ELSE "none"

\* take_woken(i - 1); an index out of range returns None
TakeWoken(a, i) ==
    /\ variant = "wake"
    /\ ~Terminated
    /\ array_state[a] = "live"
    /\ \E w0 \in {FreshCall(NoJunk)} : \E w \in {WakeArray_take_woken(w0, a, i)} :
         /\ Commit(w) /\ CommitCells(w)
         /\ lastCall' = IF w.ret = NoneOpt
                        THEN Call("take_woken", None, "none", "None", NoneOpt)
                        ELSE Call("take_woken", Store(a, i), CallBefore(Store(a, i)),
                                  IF w.ret[1] THEN "true" ELSE "false", NoneOpt)
    /\ WakeFrame

\* local_wake through a handle, a root handle or a child guard of an array,
\* that exists, or that has been destroyed while the caller kept the pointer
LocalWake(vg) ==
    /\ variant = "wake"
    /\ ~Terminated
    /\ vg_state[vg] # "free"
    /\ \E j \in StaleOutcomes(local_wake(FreshCall(NoJunk), vg)) :
       \E w0 \in {FreshCall(j)} : \E w \in {local_wake(w0, vg)} :
         /\ Commit(w) /\ CommitCells(w)
         /\ lastCall' = Call("wake", vg, WakeBefore(data[vg]), WakeKind(w), NoneOpt)
    /\ WakeFrame

\* WakeStore::new() outside a WakeArray
NewStore(s) ==
    /\ variant = "wake"
    /\ ~Terminated
    /\ array_state[ArrayOf(s)] = "free"
    /\ \E w0 \in {FreshCall(NoJunk)} : \E w \in {WakeStore_new(w0, s)} :
         Commit(w) /\ CommitCells(w)
    /\ lastCall' = NoCall
    /\ WakeFrame

\* the WakeStore goes out of scope (it has no Drop of its own)
DropStore(s) ==
    /\ variant = "wake"
    /\ ~Terminated
    /\ array_state[ArrayOf(s)] = "live"
    /\ \E w0 \in {FreshCall(NoJunk)} :
       \E w \in {ScrubWake([w0 EXCEPT !.array_state[ArrayOf(s)] = "free"])} :
         Commit(w) /\ CommitCells(w)
    /\ lastCall' = NoCall
    /\ WakeFrame

\* WakeStore::set_parent(&r) with a RefGuard the caller can name: one that is
\* not a private field of a WakeArray
StoreSetParent(s, r) ==
    /\ variant = "wake"
    /\ ~Terminated
    /\ array_state[ArrayOf(s)] = "live"
    /\ rg_state[r] = "live"
    /\ \E w0 \in {FreshCall(NoJunk)} : \E w \in {WakeStore_set_parent(w0, s, r)} :
         Commit(w) /\ CommitCells(w)
    /\ lastCall' = NoCall
    /\ WakeFrame

\* WakeStore::take_woken() on a WakeStore outside a WakeArray
StoreTakeWoken(s) ==
    /\ variant = "wake"
    /\ ~Terminated
    /\ array_state[ArrayOf(s)] = "live"
    /\ \E w0 \in {FreshCall(NoJunk)} : \E w \in {WakeStore_take_woken(w0, s)} :
         Commit(w) /\ CommitCells(w)
    /\ lastCall' = Call("take_woken", s, CallBefore(s),
                        IF activated[s] THEN "true" ELSE "false", NoneOpt)
    /\ WakeFrame

\* <WakeStore as Wake>::wake() called on a WakeStore outside a WakeArray
StoreWake(s) ==
    /\ variant = "wake"
    /\ ~Terminated
    /\ array_state[ArrayOf(s)] = "live"
    /\ \E j \in StaleOutcomes(Wake_wake(FreshCall(NoJunk), s)) :
       \E w0 \in {FreshCall(j)} : \E w \in {Wake_wake(w0, s)} :
         /\ Commit(w) /\ CommitCells(w)
         /\ lastCall' = Call("wake", s, WakeBefore(s), WakeKind(w), NoneOpt)
    /\ WakeFrame

\* RefGuard::new() outside a WakeArray
NewRef(r) ==
    /\ variant = "wake"
    /\ ~Terminated
    /\ rg_state[r] = "free"
    /\ \E w0 \in {FreshCall(NoJunk)} : \E w \in {RefGuard_new(w0, r)} :
         Commit(w) /\ CommitCells(w)
    /\ lastCall' = NoCall
    /\ WakeFrame

\* RefGuard::register with any live handle
RegisterRef(r, vg) ==
    /\ variant = "wake"
    /\ ~Terminated
    /\ rg_state[r] = "live"
    /\ vg_state[vg] = "live"
    /\ \E w0 \in {FreshCall(NoJunk)} : \E w \in {RefGuard_register(w0, r, vg)} :
         Commit(w) /\ CommitCells(w)
    /\ lastCall' = RegisterCall(r, vg)
    /\ WakeFrame

\* the RefGuard goes out of scope
DropRef(r) ==
    /\ variant = "wake"
    /\ ~Terminated
    /\ rg_state[r] = "live"
    /\ \E w0 \in {FreshCall(NoJunk)} : \E w \in {ScrubWake(RefGuard_drop(w0, r))} :
         Commit(w) /\ CommitCells(w)
    /\ lastCall' = NoCall
    /\ WakeFrame

HeapFrame == UNCHANGED <<data, ref_guard, vg_state, value_guard, rg_state, uaf>>

\* the WakeStores of wakers.rs that are driven on their own, as many as a
\* combinator has
UtilCells == {Store(1, i) : i \in Children}

\* set_parent with any wake object: a root or any cell, the cell itself included
UtilSetParent(s, p) ==
    /\ variant = "wakers"
    /\ ~overflow
    /\ \E w0 \in {Fresh} : \E w \in {UtilWakeStore_set_parent(w0, s, p)} : CommitCells(w)
    /\ lastCall' = NoCall
    /\ HeapFrame /\ WakeFrame

UtilTakeReady(s) ==
    /\ variant = "wakers"
    /\ ~overflow
    /\ \E w0 \in {Fresh} : \E w \in {UtilWakeStore_take_ready(w0, s)} : CommitCells(w)
    /\ lastCall' = Call("take_ready", s, CallBefore(s),
                        IF ready[s] THEN "true" ELSE "false", NoneOpt)
    /\ HeapFrame /\ WakeFrame

UtilWake(s) ==
    /\ variant = "wakers"
    /\ ~overflow
    /\ \E w0 \in {Fresh} : \E w \in {UtilWake_wake(w0, s)} :
         /\ CommitCells(w)
         /\ lastCall' = Call("wake", s,
                             [flag |-> IF ready[s] THEN "set" ELSE "clear", link |-> "no"],
                             WakeKind(w), NoneOpt)
    /\ HeapFrame /\ WakeFrame

NextWake ==
    \/ \E h \in Room(WakeRoots) : NewRoot(h)
    \/ \E h \in WakeRoots : DropRoot(h)
    \/ \E a \in Room(WakeArrays) : NewArray(a)
    \/ \E a \in WakeArrays : DropArray(a)
    \/ \E a \in WakeArrays, vg \in WakeHandles : RegisterParent(a, vg)
    \/ \E a \in WakeArrays : \E i \in 1..(ArrayLen(a) + 1) : ChildGuardPtr(a, i)
    \/ \E vg \in SetTargets, x \in SetValues : SetHandle(vg, x)
    \/ \E a \in WakeArrays : \E i \in 1..(ArrayLen(a) + 1) : TakeWoken(a, i)
    \/ \E vg \in WakeHandles : LocalWake(vg)
    \/ \E s \in Room(LooseStores) : NewStore(s)
    \/ \E s \in LooseStores : DropStore(s)
    \/ \E s \in LooseStores, r \in LooseRefs : StoreSetParent(s, r)
    \/ \E s \in LooseStores : StoreTakeWoken(s)
    \/ \E s \in LooseStores : StoreWake(s)
    \/ \E r \in Room(LooseRefs) : NewRef(r)
    \/ \E r \in LooseRefs, vg \in WakeHandles : RegisterRef(r, vg)
    \/ \E r \in LooseRefs : DropRef(r)
    \/ \E s \in UtilCells, p \in Roots \cup UtilCells : UtilSetParent(s, p)
    \/ \E s \in UtilCells : UtilTakeReady(s)
    \/ \E s \in UtilCells : UtilWake(s)

SpecWake == InitWake /\ [][NextWake]_vars

\* the cell a wake() of the last step was called on (through a handle, or
\* directly on a WakeStore outside an array), and the wake object a cell
\* forwards to (None when it has no registered, linked parent)
WokenCell ==
    IF variant = "wake" /\ lastCall.who \notin LooseStores
    THEN data[lastCall.who] ELSE lastCall.who

ParentOf(o) ==
    IF variant = "wakers" THEN parent[o]
    ELSE IF wake_parent[o] \notin WakeRefs THEN None
    ELSE IF value_guard[wake_parent[o]] = None THEN None
    ELSE data[value_guard[wake_parent[o]]]

ReadyFlag(o) == IF variant = "wakers" THEN ready[o] ELSE activated[o]

LiveObject(o) ==
    IF o \in Roots THEN variant = "wakers" \/ vg_state[o] = "live"
    ELSE variant = "wakers" \/ array_state[ArrayOf(o)] = "live"

\* C7: a wake() on a cell that has a registered parent leaves the cell's flag
\* true and calls wake() on the parent in the same call; a parent that is
\* itself a cell has its flag true afterwards.  Each of the two is called once,
\* unless the chain of parents leads back into itself and the call never
\* returns.  Both WakeStore implementations.
C7_WakeSetsFlagAndForwards ==
    (lastCall.op = "wake" /\ WokenCell \in Stores /\ ParentOf(WokenCell) \in WakeObjects) =>
        /\ ReadyFlag(WokenCell)
        /\ wakes[WokenCell] >= 1
        /\ wakes[ParentOf(WokenCell)] >= 1
        /\ lastCall.kind # "Overflow" =>
             wakes[WokenCell] = 1 /\ wakes[ParentOf(WokenCell)] = 1
        /\ ParentOf(WokenCell) \in Stores => ReadyFlag(ParentOf(WokenCell))

C7_Witness ==
    /\ variant = "wakers"
    /\ lastCall.op = "wake"
    /\ lastCall.kind = "none"
    /\ parent[lastCall.who] \in Stores
    /\ ready[lastCall.who]
    /\ ready[parent[lastCall.who]]
    /\ wakes[parent[lastCall.who]] = 1

\* the wake objects on the chain of parents from wake object o upwards, at
\* most n of them
RECURSIVE PathFrom(_, _)
PathFrom(o, n) ==
    IF o \notin WakeObjects \/ n = 0 THEN {}
    ELSE IF o \in Roots THEN {o}
    ELSE {o} \cup PathFrom(ParentOf(o), n - 1)

\* the chain from the woken cell; it is complete when it ends in a root handle:
\* every level has been given its parent's handle and has handed out its own
WokenPath == PathFrom(WokenCell, Cardinality(WakeObjects))

\* C20: in a nest of combinators in which every level has been polled, a
\* wake() on a leaf's handle sets, within that call, the flag of every cell
\* on the chain of parents from the leaf's cell to the root, calls wake() once
\* on each of them and on the root driver's handle, and on nothing else.
C20_WakeBubblesToRoot ==
    (lastCall.op = "wake" /\ WokenCell \in Stores /\ WokenPath \cap Roots # {}) =>
        /\ lastCall.kind = "none"
        /\ \A o \in WokenPath \cap Stores : ReadyFlag(o)
        /\ \A o \in WakeObjects : wakes[o] = IF o \in WokenPath THEN 1 ELSE 0

\* reached: a wake on a leaf two levels below the root handle
C20_Witness ==
    /\ variant = "wake"
    /\ lastCall.op = "wake"
    /\ WokenCell \in Stores
    /\ ParentOf(WokenCell) \in Stores
    /\ ParentOf(ParentOf(WokenCell)) \in Roots
    /\ activated[WokenCell] /\ activated[ParentOf(WokenCell)]
    /\ wakes[ParentOf(ParentOf(WokenCell))] = 1

\* C27: every wake() on a cell that has a registered, live parent calls
\* wake() on that parent exactly once, whether the cell's flag was clear or
\* already set (so k calls forward k times), and leaves the flag set; the
\* flag of a cell goes from set to clear only in a take of that cell's flag.
\* (A call whose chain of parents leads back into itself does not return; it
\* has called the parent at least once when the stack overflows.)
\* Both WakeStore implementations.
C27_ForwardingIsUnconditional ==
    [][/\ (variant = "wake" /\ lastCall'.op = "wake") =>
            \A c \in {IF lastCall'.who \in LooseStores
                      THEN lastCall'.who ELSE data[lastCall'.who]} :
                (c \in Stores /\ ParentOf(c) \in WakeObjects) =>
                    /\ wakes'[c] >= 1
                    /\ wakes'[ParentOf(c)] >= 1
                    /\ lastCall'.kind # "Overflow" =>
                         wakes'[c] = 1 /\ wakes'[ParentOf(c)] = 1
                    /\ activated'[c]
       /\ (variant = "wakers" /\ lastCall'.op = "wake") =>
            \A s \in {lastCall'.who} :
                parent[s] # None =>
                    /\ wakes'[s] >= 1
                    /\ wakes'[parent[s]] >= 1
                    /\ lastCall'.kind # "Overflow" =>
                         wakes'[s] = 1 /\ wakes'[parent[s]] = 1
                    /\ ready'[s]
       /\ \A o \in Stores :
            (LiveObject(o) /\ ReadyFlag(o) /\ ~ReadyFlag(o)') =>
                /\ lastCall'.op \in {"take_woken", "take_ready"}
                /\ lastCall'.who = o
                /\ lastCall'.kind = "true"]_vars

\* reached: a wake() on a cell of wake.rs whose flag was already set was
\* forwarded to its parent cell and from there to the root handle
C27_Witness ==
    /\ variant = "wake"
    /\ lastCall.op = "wake"
    /\ lastCall.was.flag = "set"
    /\ lastCall.kind = "none"
    /\ WokenCell \in Stores
    /\ ParentOf(WokenCell) \in Stores
    /\ wakes[ParentOf(WokenCell)] = 1
    /\ ParentOf(ParentOf(WokenCell)) \in Roots
    /\ wakes[ParentOf(ParentOf(WokenCell))] = 1

\* C29: a take of a cell's flag (take_woken, take_ready) returns the value the
\* flag has and leaves it false, touching no other flag; a take that directly
\* follows a take of the same cell returns false, a take that directly follows
\* a wake() that reached the cell returns true, and a clear flag of a live
\* cell becomes set only in a step whose wake() reaches the cell.
C29_TakeReturnsAndClears ==
    [][\A s \in Stores :
         /\ (lastCall'.op \in {"take_woken", "take_ready"} /\ lastCall'.who = s) =>
              /\ lastCall'.kind = IF ReadyFlag(s) THEN "true" ELSE "false"
              /\ ~ReadyFlag(s)'
              /\ \A o \in Stores \ {s} : ReadyFlag(o)' = ReadyFlag(o)
              /\ (lastCall.op \in {"take_woken", "take_ready"} /\ lastCall.who = s) =>
                   lastCall'.kind = "false"
              /\ wakes[s] > 0 => lastCall'.kind = "true"
         /\ (LiveObject(s) /\ LiveObject(s)' /\ ~ReadyFlag(s) /\ ReadyFlag(s)') =>
              /\ lastCall'.op = "wake"
              /\ wakes'[s] > 0]_vars

\* reached: take_woken on a cell directly after a take_woken on the same cell
\* has returned false
C29_Witness ==
    /\ variant = "wake"
    /\ lastCall.op = "take_woken"
    /\ lastCall.was = "take"
    /\ lastCall.kind = "false"
    /\ ~activated[lastCall.who]

\* a wake() that returned after it set the flag of the woken cell and called
\* nothing else, and read no destroyed object
OnlyWokenCell ==
    /\ lastCall.kind = "none"
    /\ ~uaf
    /\ activated[WokenCell]
    /\ \A o \in WakeObjects : wakes[o] = IF o = WokenCell THEN 1 ELSE 0

\* C10 (as stated): a wake() on a cell that follows the destruction of the
\* parent handle the cell forwards to, and a wake() through a child handle of
\* a WakeArray that has been destroyed, forward nothing and read or invoke no
\* destroyed object; the first sets the flag of the cell, which lives.
C10_Counterexample ==
    (variant = "wake" /\ lastCall.op = "wake") =>
        /\ (WokenCell \in Stores /\ lastCall.was.link = "dropped") => OnlyWokenCell
        /\ (lastCall.who \in WakeHandles \ WakeRoots /\ vg_state[lastCall.who] = "gone") =>
             /\ lastCall.kind = "none"
             /\ ~uaf
             /\ \A o \in WakeObjects : wakes[o] = 0

\* C35: when two RefGuards (the parents of two WakeArrays) have registered
\* the same handle, the one that registered last is the one the handle
\* records and the other one reads None from then on; a wake() on a cell whose
\* parent reads None sets that cell's flag and calls wake() on nothing else,
\* without panic or read of freed memory, while a wake() on a cell whose parent
\* the handle records (a cell that child_guard_ptr has handed out) is
\* forwarded to the handle's wake object.
C35_LastRegisteredArrayForwards ==
    variant = "wake" =>
        /\ ~panicked
        /\ lastCall.op = "register" =>
             /\ value_guard[lastCall.who] # None
             /\ ref_guard[value_guard[lastCall.who]] = lastCall.who
             /\ rg_state[lastCall.was.took] = "live" =>
                  value_guard[lastCall.was.took] = None
        /\ \A r \in WakeRefs :
             (rg_state[r] = "live" /\ value_guard[r] # None) =>
                 /\ vg_state[value_guard[r]] = "live"
                 /\ ref_guard[value_guard[r]] = r
        /\ (lastCall.op = "wake" /\ WokenCell \in Stores) =>
             /\ (wake_parent[WokenCell] \in WakeRefs
                   /\ value_guard[wake_parent[WokenCell]] = None) => OnlyWokenCell
             /\ \A v \in WakeHandles :
                  (/\ vg_state[v] = "live"
                   /\ wake_parent[WokenCell] \in WakeRefs
                   /\ ref_guard[v] = wake_parent[WokenCell]
                   /\ data[v] \in WakeObjects) =>
                      /\ activated[WokenCell]
                      /\ wakes[data[v]] >= 1
                      /\ lastCall.kind # "Overflow" => wakes[data[v]] = 1

\* reached: two arrays registered the same root handle one after the other; a
\* wake() on a cell of the first array, right after the second registration,
\* has set its flag and not reached the handle, which records the second array
C35_Witness ==
    /\ variant = "wake"
    /\ lastCall.op = "wake"
    /\ lastCall.was.link = "replaced"
    /\ lastCall.kind = "none"
    /\ WokenCell \in ArrayStores
    /\ wake_parent[WokenCell] = ParentRef(ArrayOf(WokenCell))
    /\ activated[WokenCell]
    /\ \E h \in Roots, a \in Arrays \ {ArrayOf(WokenCell)} :
         /\ vg_state[h] = "live"
         /\ data[h] = h
         /\ ref_guard[h] = ParentRef(a)
         /\ value_guard[ParentRef(a)] = h
         /\ wakes[h] = 0

\* C31: the parent link of a WakeArray dangles in neither direction.  A live
\* handle never records a destroyed RefGuard, and the handle an array was
\* registered with when it was destroyed has an empty reference slot
\* afterwards (or was one of the array's own child guards and is destroyed
\* with it); a live array never records a destroyed handle, the RefGuards
\* that recorded a handle at its destruction read None afterwards, and a
\* wake() on a cell of an array whose parent RefGuard reads None calls wake()
\* on nothing but the cell.
C31_ParentLinkNeverDangles ==
    variant = "wake" =>
        /\ \A v \in WakeHandles :
             (vg_state[v] = "live" /\ ref_guard[v] # None) =>
                 /\ rg_state[ref_guard[v]] = "live"
                 /\ ref_guard[v] \in Arrays => array_state[ref_guard[v]] = "live"
                 /\ value_guard[ref_guard[v]] = v
        /\ (lastCall.op = "drop_array" /\ lastCall.was.parent # None) =>
             IF lastCall.was.parent \in Stores /\ ArrayOf(lastCall.was.parent) = lastCall.who
             THEN vg_state[lastCall.was.parent] # "live"
             ELSE /\ vg_state[lastCall.was.parent] = "live"
                  /\ ref_guard[lastCall.was.parent] = None
        /\ lastCall.op \in {"drop_root", "drop_array"} =>
             \A r \in lastCall.was.refs :
                 rg_state[r] = "live" => RefGuard_get(World, r) = NoneOpt
        /\ \A a \in Arrays :
             array_state[a] = "live" =>
                 /\ value_guard[ParentRef(a)] # None =>
                      /\ vg_state[value_guard[ParentRef(a)]] = "live"
                      /\ ref_guard[value_guard[ParentRef(a)]] = ParentRef(a)
                 /\ (lastCall.op = "wake" /\ WokenCell \in ArrayStores
                       /\ ArrayOf(WokenCell) = a
                       /\ (value_guard[ParentRef(a)] = None
                             \/ lastCall.was.link = "dropped")) =>
                      /\ lastCall.kind = "none"
                      /\ \A o \in WakeObjects \ {WokenCell} : wakes[o] = 0

\* reached: the root handle an array was registered with was destroyed, and a
\* wake() on a handed-out cell of the array, which lives, has returned
C31_Witness ==
    /\ variant = "wake"
    /\ lastCall.op = "wake"
    /\ lastCall.was.link = "dropped"
    /\ lastCall.kind = "none"
    /\ WokenCell \in ArrayStores
    /\ wake_parent[WokenCell] = ParentRef(ArrayOf(WokenCell))
    /\ value_guard[ParentRef(ArrayOf(WokenCell))] = None
    /\ \A h \in WakeRoots : vg_state[h] # "live"

\* ============================================================ MaybeDone alone
\* Wrappers over counting operations, polled with the no-op root handle as in
\* maybe_done.rs tests::normal.
SelfOrNone(i) == {None, i}

InitMaybeDone ==
    /\ InitWorld(FreeWorld)
    /\ ConfigIdle
    /\ variant = "wakers"
    /\ debug_assertions = TRUE
    /\ ready_at \in [Children -> {Never} \cup 1..MaxReadyAt]
    /\ wake_target \in {f \in [Children -> {None} \cup Children] :
                          \A i \in Children : f[i] \in SelfOrNone(i)}

TaskFrame ==
    UNCHANGED <<data, ref_guard, vg_state, value_guard, rg_state, uaf, variant,
                lastOp, severed, ready_at, wake_target, debug_assertions, threadVars>>

\* the root handle the wrappers are polled with
NoopRoot == 1

MaybePoll(i) ==
    /\ ~panicked
    /\ inner_polls[i] < MaxPolls
    /\ \E w0 \in {Fresh} : \E w \in {MaybeDone_poll(w0, i, NoopRoot)} :
         /\ CommitTasks(w)
         /\ CommitCells(w)
         /\ lastCall' = Call("poll", i, md_state[i], PollKind(w), w.ret)
    /\ UNCHANGED calls
    /\ TaskFrame

MaybeTakeOutput(i) ==
    /\ ~panicked
    /\ \E w0 \in {Fresh} : \E w \in {MaybeDone_take_output(w0, i)} :
         /\ CommitTasks(w)
         /\ CommitCells(w)
         /\ lastCall' = Call("take_output", i, md_state[i],
                             IF md_state[i] = "Done" THEN "Some" ELSE "None", w.ret)
    /\ UNCHANGED calls
    /\ TaskFrame

NextMaybeDone ==
    \/ \E i \in Children : MaybePoll(i)
    \/ \E i \in Children : MaybeTakeOutput(i)

SpecMaybeDone == InitMaybeDone /\ [][NextMaybeDone]_vars

\* C6: once a MaybeDone is Done, a poll returns Ready(()) and leaves it Done,
\* and the inner operation is never polled again: its poll count stays at the
\* count it had when it first returned Ready.
C6_DonePollIsIdempotent ==
    /\ \A i \in Children :
         md_state[i] # "Future" => inner_polls[i] = done_at[i] /\ done_at[i] = ready_at[i]
    /\ (lastCall.op = "poll" /\ lastCall.was = "Done") =>
         /\ lastCall.kind = "Ready"
         /\ lastCall.out = Ready(Unit)
         /\ md_state[lastCall.who] = "Done"

C6_Witness ==
    /\ lastCall.op = "poll"
    /\ lastCall.was = "Done"
    /\ lastCall.kind = "Ready"
    /\ done_at[lastCall.who] = MaxReadyAt
    /\ inner_polls[lastCall.who] = MaxReadyAt

\* C12: take_output on a Done(v) wrapper returns Some(v), v being the value
\* the inner operation returned, and leaves the wrapper Gone; on an Active or
\* Gone wrapper it returns None and changes nothing; a Gone wrapper stays
\* Gone, so the output is handed out at most once.
C12_TakeOutputAtMostOnce ==
    [][\A i \in Children :
         /\ md_state[i] = "Done" => md_output[i] = ready_at[i]
         /\ md_state[i] = "Gone" => md_state'[i] = "Gone"
         /\ MaybeTakeOutput(i) =>
              /\ lastCall'.op = "take_output" /\ lastCall'.who = i
              /\ IF md_state[i] = "Done"
                 THEN /\ lastCall'.out = Some(md_output[i])
                      /\ md_state'[i] = "Gone"
                 ELSE /\ lastCall'.out = NoneOpt
                      /\ md_state'[i] = md_state[i]
              /\ \A j \in Children \ {i} : md_state'[j] = md_state[j]
              /\ inner_polls' = inner_polls
              /\ ~panicked']_vars

\* reached: a second take_output returned None after the first handed out
\* the output
C12_Witness ==
    /\ lastCall.op = "take_output"
    /\ lastCall.was = "Gone"
    /\ lastCall.out = NoneOpt
    /\ md_state[lastCall.who] = "Gone"
    /\ inner_polls[lastCall.who] = MaxReadyAt

\* C13: a poll of a wrapper whose output has been taken panics: it returns
\* neither Ready nor Pending, the wrapper stays Gone, and the inner operation
\* is not polled (its poll count is still the count at which it completed, and
\* no handle was woken).
C13_PollAfterTakePanics ==
    (lastCall.op = "poll" /\ lastCall.was = "Gone") =>
        /\ panicked
        /\ lastCall.kind = "Panic"
        /\ md_state[lastCall.who] = "Gone"
        /\ inner_polls[lastCall.who] = done_at[lastCall.who]
        /\ \A o \in WakeObjects : wakes[o] = 0

C13_Witness ==
    /\ lastCall.op = "poll"
    /\ lastCall.was = "Gone"
    /\ lastCall.kind = "Panic"
    /\ panicked
    /\ wake_target[lastCall.who] = lastCall.who

\* C40 as stated: a poll of a wrapper that is already Done or Gone returns
\* Ready(()) and the inner operation is not polled.
C40_Counterexample ==
    (lastCall.op = "poll" /\ lastCall.was \in {"Done", "Gone"}) =>
        /\ lastCall.kind = "Ready"
        /\ lastCall.out = Ready(Unit)
        /\ inner_polls[lastCall.who] = done_at[lastCall.who]

\* C40: a poll of a wrapper that is already Done returns Ready(()) at once,
\* a poll of a wrapper that is Gone panics instead of returning; neither
\* touches the inner operation: no poll count changes, no handle is woken,
\* and no wrapper changes its state or its stored output.
C40_PollOfFinishedWrapper ==
    [][\A i \in Children :
         (md_state[i] # "Future" /\ MaybePoll(i)) =>
            /\ inner_polls' = inner_polls
            /\ \A o \in WakeObjects : wakes'[o] = 0
            /\ md_state' = md_state
            /\ md_output' = md_output
            /\ lastCall'.op = "poll" /\ lastCall'.who = i
            /\ IF md_state[i] = "Done"
               THEN lastCall'.kind = "Ready" /\ lastCall'.out = Ready(Unit) /\ ~panicked'
               ELSE lastCall'.kind = "Panic" /\ panicked']_vars

\* reached: a Done wrapper whose inner operation wakes its own handle on
\* every poll was polled again and returned Ready
C40_Witness ==
    /\ lastCall.op = "poll"
    /\ lastCall.was = "Done"
    /\ lastCall.kind = "Ready"
    /\ wake_target[lastCall.who] = lastCall.who
    /\ ready_at[lastCall.who] = 1
    /\ inner_polls[lastCall.who] = 1

\* ======================================================================= Join
\* One Join over NumChildren counting operations, polled by a driver with a
\* root handle; the children's handles may also be woken from outside.

RECURSIVE WithRoots(_, _)
WithRoots(w, h) == IF h > NumRoots THEN w ELSE WithRoots(dummy_guard(w, h), h + 1)

\* the memory once the root handles and the Join have been constructed
JoinWorld == WakeArray_new(WithRoots(FreeWorld, 1), JoinArray)

InitJoin ==
    /\ InitWorld(JoinWorld)
    /\ variant = "wake"
    /\ ConfigIdle
    /\ debug_assertions \in BOOLEAN
    /\ ready_at \in [Children -> {Never} \cup 1..MaxReadyAt]
    /\ wake_target \in WakeTargets

CommitWorld(w) == Commit(w) /\ CommitCells(w) /\ CommitTasks(w)

ConfigFrame ==
    UNCHANGED <<variant, lastOp, severed, ready_at, wake_target, debug_assertions,
                threadVars>>

\* what the children's poll counts, flags and states were when the call
\* started, and the wake object each child's cell forwarded to
Before ==
    [polls |-> inner_polls,
     flags |-> IF variant = "wake" THEN activated ELSE ready,
     states |-> md_state,
     parents |-> [i \in Children |-> ParentOf(Store(1, i))]]

\* One Join.poll(cx) with root handle h, no child polled more than cap times.
\* After undefined behaviour the call may return anything.
JoinPollCapped(h, cap) ==
    /\ ~panicked /\ ~ub
    /\ vg_state[h] = "live"
    /\ \A i \in Children : inner_polls[i] < cap
    /\ \E w0 \in {Fresh} : \E w \in {Join_poll(w0, h)} :
         /\ CommitWorld(w)
         /\ IF w.ub
            THEN \E k \in {"Ready", "Pending", "Panic"} :
                   lastCall' = Call("join_poll", h, Before, k, NoneOpt)
            ELSE lastCall' = Call("join_poll", h, Before, PollKind(w), w.ret)
    /\ ConfigFrame

JoinPoll(h) == JoinPollCapped(h, MaxPolls) /\ UNCHANGED calls

\* a wake from outside through the handle child i was given when it was polled
ExternalWake(i) ==
    /\ ~panicked /\ ~ub
    /\ inner_polls[i] > 0
    /\ \E w0 \in {Fresh} : \E w \in {local_wake(w0, ChildGuard(JoinArray, i))} :
         CommitWorld(w)
    /\ lastCall' = Call("wake", ChildGuard(JoinArray, i), "none", "none", NoneOpt)
    /\ UNCHANGED calls
    /\ ConfigFrame

NextJoin ==
    \/ \E h \in Roots : JoinPoll(h)
    \/ \E i \in Children : ExternalWake(i)

SpecJoin == InitJoin /\ [][NextJoin]_vars

\* C1: the tuple a Join returns with Ready holds, at every position i, the
\* output child i produced, whatever the order and the polls in which the
\* children completed.
C1_JoinOutputInDeclarationOrder ==
    (lastCall.op = "join_poll" /\ lastCall.kind = "Ready" /\ ~ub) =>
        /\ Len(lastCall.out[1]) = NumChildren
        /\ \A i \in Children : lastCall.out[1][i] = ready_at[i]
        /\ \A i \in Children : done_at[i] = ready_at[i] /\ md_state[i] = "Gone"

\* a child of higher index completed in an earlier Join.poll than child 1
C1_Witness ==
    /\ lastCall.op = "join_poll"
    /\ lastCall.kind = "Ready"
    /\ ready_at[1] = 2
    /\ ready_at[NumChildren] = 1
    /\ lastCall.out[1][1] = 2
    /\ lastCall.out[1][NumChildren] = 1

\* the inner operation of child i was polled in the last Join.poll
PolledInCall(i) == inner_polls[i] > lastCall.was.polls[i]

\* The woken flag of child i's cell when the scan of the last Join.poll reached
\* it: set when the call started, or set since by an earlier child of the scan
\* that woke the handle child i holds (a child holds a handle once it has been
\* polled).
FlagWhenReached(i) ==
    \/ lastCall.was.flags[Store(JoinArray, i)]
    \/ \E j \in 1..(i - 1) :
         /\ PolledInCall(j)
         /\ wake_target[j] = i
         /\ lastCall.was.polls[i] > 0

\* C14: in a Join.poll, a child that has not completed when the call starts
\* is polled in the call exactly if its cell's woken flag is set when the scan
\* reaches it; if the flag is clear the child is not polled and the call
\* returns Pending.
C14_JoinPollsExactlyWokenChildren ==
    lastCall.op = "join_poll" =>
        \A i \in Children :
            lastCall.was.states[i] = "Future" =>
                /\ PolledInCall(i) <=> FlagWhenReached(i)
                /\ ~FlagWhenReached(i) =>
                     /\ inner_polls[i] = lastCall.was.polls[i]
                     /\ md_state[i] = "Future"
                     /\ lastCall.kind = "Pending"

\* reached: in one call a child whose flag was clear was passed over and a
\* child whose flag was set was polled
C14_Witness ==
    /\ lastCall.op = "join_poll"
    /\ lastCall.kind = "Pending"
    /\ \E i, j \in Children :
         /\ lastCall.was.states[i] = "Future" /\ lastCall.was.states[j] = "Future"
         /\ ~FlagWhenReached(i) /\ ~PolledInCall(i) /\ lastCall.was.polls[i] > 0
         /\ FlagWhenReached(j) /\ PolledInCall(j)

\* C30: a Join.poll that starts with the woken flag of every cell clear and
\* with a child that has not completed returns Pending without panic or
\* undefined behaviour, polls no child, calls no wake(), and leaves every
\* wrapper state and every woken flag as it was.
C30_BusyPollChangesNothing ==
    (/\ lastCall.op = "join_poll"
     /\ \A i \in Children : ~lastCall.was.flags[Store(JoinArray, i)]
     /\ \E i \in Children : lastCall.was.states[i] = "Future") =>
        /\ lastCall.kind = "Pending"
        /\ ~panicked /\ ~ub
        /\ inner_polls = lastCall.was.polls
        /\ md_state = lastCall.was.states
        /\ \A i \in Children :
             activated[Store(JoinArray, i)] = lastCall.was.flags[Store(JoinArray, i)]
        /\ wakes = NoWakes

\* reached: a Join with one completed and one uncompleted child, both polled
\* before, was polled with every flag clear and returned Pending
C30_Witness ==
    /\ lastCall.op = "join_poll"
    /\ lastCall.kind = "Pending"
    /\ \A i \in Children : ~lastCall.was.flags[Store(JoinArray, i)]
    /\ \E i, j \in Children :
         /\ lastCall.was.states[i] = "Future" /\ md_state[i] = "Future"
         /\ lastCall.was.states[j] = "Done" /\ md_state[j] = "Done"
    /\ \A i \in Children : lastCall.was.polls[i] > 0
    /\ inner_polls = lastCall.was.polls

\* C15: in one Join.poll the inner operation of every child is polled at most
\* once, also when a child wakes its own cell or the cell of another child
\* while it is polled.
C15_JoinPollsChildAtMostOnce ==
    lastCall.op = "join_poll" =>
        \A i \in Children :
            /\ inner_polls[i] >= lastCall.was.polls[i]
            /\ inner_polls[i] <= lastCall.was.polls[i] + 1

\* reached: in one call a child woke its own cell and another child woke that
\* cell too, and each was polled once
C15_Witness ==
    /\ lastCall.op = "join_poll"
    /\ \E i, j \in Children :
         /\ i # j
         /\ wake_target[i] = i /\ wake_target[j] = i
         /\ lastCall.was.polls[i] > 0
         /\ inner_polls[i] = lastCall.was.polls[i] + 1
         /\ inner_polls[j] = lastCall.was.polls[j] + 1
         /\ activated[Store(JoinArray, i)]

\* no child had completed and given up its output when the last call started
FirstCompletion == \A i \in Children : lastCall.was.states[i] # "Gone"

\* every child had completed when the scan of the last Join.poll ended
AllDoneAfterScan == \A i \in Children : md_state[i] # "Future"

\* C16: a Join.poll returns Ready exactly if every child has completed, in
\* this call or in an earlier one, when its scan ends; with a child that has
\* not completed it returns Pending and takes no output.
C16_JoinReadyIffAllDone ==
    (lastCall.op = "join_poll" /\ FirstCompletion) =>
        /\ lastCall.kind = "Ready" <=> AllDoneAfterScan
        /\ ~AllDoneAfterScan =>
             /\ lastCall.kind = "Pending"
             /\ \A i \in Children : md_state[i] # "Gone"

\* reached: a Join.poll returned Ready with a child that had completed in an
\* earlier call and had not been woken since
C16_Witness ==
    /\ lastCall.op = "join_poll"
    /\ lastCall.kind = "Ready"
    /\ \E i \in Children :
         /\ lastCall.was.states[i] = "Done"
         /\ ~lastCall.was.flags[Store(JoinArray, i)]
    /\ \E j \in Children : lastCall.was.states[j] = "Future"

\* C17: once the inner operation of a child of a Join has returned Ready it
\* is never polled again, whatever Join.poll and wake() calls follow, also
\* when the cell of the completed child is woken again: its poll count stays
\* the count of the poll that returned Ready.
C17_JoinNeverPollsCompletedChild ==
    ~ub =>
        \A i \in Children :
            /\ ready_at[i] # Never => inner_polls[i] <= ready_at[i]
            /\ md_state[i] # "Future" =>
                 /\ inner_polls[i] = ready_at[i]
                 /\ done_at[i] = ready_at[i]

\* reached: a Join.poll found a completed child with its woken flag set
C17_Witness ==
    /\ lastCall.op = "join_poll"
    /\ \E i \in Children :
         /\ lastCall.was.states[i] = "Done"
         /\ lastCall.was.flags[Store(JoinArray, i)]
         /\ lastCall.was.polls[i] = ready_at[i]
         /\ inner_polls[i] = ready_at[i]
         /\ ~activated[Store(JoinArray, i)]

\* the last call was a Join.poll on a Join that had already returned Ready
\* (its outputs had been taken)
RepolledAfterReady ==
    /\ lastCall.op = "join_poll"
    /\ \E i \in Children : lastCall.was.states[i] = "Gone"

\* C18: a Join.poll on a Join that has returned Ready fails an assertion: it
\* panics, returns no value, executes no undefined behaviour, takes no output
\* and polls no child.
C18_Counterexample ==
    RepolledAfterReady =>
        /\ panicked
        /\ ~ub
        /\ lastCall.kind = "Panic"
        /\ inner_polls = lastCall.was.polls
        /\ md_state = lastCall.was.states

\* C23: a Join.poll that gets as far as its children registers the handle h
\* it was called with before it polls a child: when it returns, the parent
\* of the WakeArray is h, every cell forwards to that parent, and no wake()
\* made during the call reached another handle.  The registration stays
\* until the next Join.poll: a wake() on a child's cell after the call calls
\* wake() once on the handle of the last call and on no other handle.
C23_LastRegisteredHandleIsWoken ==
    [][/\ \A h \in Roots :
            (JoinPoll(h) /\ ~panicked') =>
                /\ value_guard'[ParentRef(JoinArray)] = h
                /\ \A i \in Children :
                     wake_parent'[Store(JoinArray, i)] = ParentRef(JoinArray)
                /\ \A o \in Roots \ {h} : wakes'[o] = 0
       /\ \A i \in Children :
            ExternalWake(i) =>
                /\ value_guard' = value_guard
                /\ value_guard[ParentRef(JoinArray)] \in Roots
                /\ \A o \in Roots :
                     wakes'[o] = IF o = value_guard[ParentRef(JoinArray)] THEN 1 ELSE 0]_vars

\* reached: a Join.poll with the second handle after one with the first, in
\* which a child woke its cell and the second handle was called
C23_Witness ==
    /\ lastCall.op = "join_poll"
    /\ lastCall.who = 2
    /\ \E i \in Children : lastCall.was.parents[i] = 1
    /\ value_guard[ParentRef(JoinArray)] = 2
    /\ wakes[2] >= 1
    /\ wakes[1] = 0

\* C22: a Join.poll on a Join that has not returned Ready before takes
\* outputs only when every child has completed: it executes no
\* unwrap_unchecked of an absent output, and either no wrapper has given up
\* its output, or the call returned Ready, every wrapper went from Done to
\* Gone and the tuple holds the output of every child.
C22_ReadyPathFindsAllDone ==
    (lastCall.op = "join_poll" /\ FirstCompletion) =>
        /\ ~ub
        /\ (\E i \in Children : md_state[i] = "Gone") =>
             /\ lastCall.kind = "Ready"
             /\ Len(lastCall.out[1]) = NumChildren
             /\ \A i \in Children :
                  /\ md_state[i] = "Gone"
                  /\ done_at[i] = ready_at[i]
                  /\ lastCall.out[1][i] = ready_at[i]
        /\ lastCall.kind = "Ready" => \A i \in Children : md_state[i] = "Gone"

\* reached: a first Ready in which one child had completed in an earlier call
C22_Witness ==
    /\ lastCall.op = "join_poll"
    /\ lastCall.kind = "Ready"
    /\ ~ub
    /\ \E i, j \in Children :
         /\ lastCall.was.states[i] = "Done"
         /\ lastCall.was.states[j] = "Future"
    /\ \A i \in Children : md_state[i] = "Gone"

\* ======================================================================= Race
\* One Race over NumChildren counting operations, polled by a driver with a
\* root handle (a FnWake); the children's handles may also be woken from outside.
\* the memory once the Race has been constructed: Wakers { WakeStore::new(), .. }
RECURSIVE WithCells(_, _)
WithCells(w, i) ==
    IF i > NumChildren THEN w
    ELSE WithCells(UtilWakeStore_new(w, Store(RaceArray, i)), i + 1)

RaceWorld == WithCells(FreeWorld, 1)

InitRace ==
    /\ InitWorld(RaceWorld)
    /\ variant = "wakers"
    /\ ConfigIdle
    /\ debug_assertions = TRUE
    /\ ready_at \in [Children -> {Never} \cup 1..MaxReadyAt]
    /\ wake_target \in WakeTargets

RacePollCapped(h, cap) ==
    /\ \A i \in Children : inner_polls[i] < cap
    /\ \E w0 \in {Fresh} : \E w \in {Race_poll(w0, h)} :
         /\ CommitWorld(w)
         /\ lastCall' = Call("race_poll", h, Before, PollKind(w), w.ret)
    /\ ConfigFrame

RacePoll(h) == RacePollCapped(h, MaxPolls) /\ UNCHANGED calls

ExternalWakeRace(i) ==
    /\ inner_polls[i] > 0
    /\ \E w0 \in {Fresh} : \E w \in {UtilWake_wake(w0, Store(RaceArray, i))} :
         CommitWorld(w)
    /\ lastCall' = Call("wake", Store(RaceArray, i), "none", "none", NoneOpt)
    /\ UNCHANGED calls
    /\ ConfigFrame

NextRace ==
    \/ \E h \in Roots : RacePoll(h)
    \/ \E i \in Children : ExternalWakeRace(i)

SpecRace == InitRace /\ [][NextRace]_vars

\* the winner of the last Race.poll and its output
Winner == lastCall.out[1][1]
WinnerOutput == lastCall.out[1][2]

\* child j had its flag set when the last call started and its next poll returns Ready
ReadyAtStart(j) ==
    /\ lastCall.was.flags[Store(RaceArray, j)]
    /\ lastCall.was.polls[j] + 1 = ready_at[j]

\* child j was polled in the last call and returned Ready
PolledReady(j) ==
    /\ inner_polls[j] = lastCall.was.polls[j] + 1
    /\ inner_polls[j] = ready_at[j]

\* C2: a Race.poll in which two or more children have their flag set and would
\* return Ready returns Ready; the result of a Race.poll is tagged with the
\* lowest index among the children that were flagged and Ready in that call
\* and carries that child's output, and no child of higher index is polled.
C2_RaceLowestIndexWins ==
    lastCall.op = "race_poll" =>
        /\ Cardinality({j \in Children : ReadyAtStart(j)}) >= 2 => lastCall.kind = "Ready"
        /\ lastCall.kind = "Ready" =>
             /\ Winner \in Children
             /\ PolledReady(Winner)
             /\ WinnerOutput = ready_at[Winner]
             /\ \A j \in Children : ReadyAtStart(j) => Winner <= j
             /\ \A j \in Children : j < Winner => ~PolledReady(j)
             /\ \A j \in Children : j > Winner => inner_polls[j] = lastCall.was.polls[j]

C2_Witness ==
    /\ lastCall.op = "race_poll"
    /\ lastCall.kind = "Ready"
    /\ Winner = 1
    /\ ReadyAtStart(1)
    /\ ReadyAtStart(2)
    /\ ready_at[1] = 2
    /\ ready_at[2] = 2
    /\ WinnerOutput = 2
    /\ inner_polls[2] = 1
    /\ ready[Store(RaceArray, 2)]

\* C25 as stated: when slot i wins a Race.poll, no slot j > i is polled in
\* the call and the flag of every slot j > i is what it was before the call.
C25_Counterexample ==
    (lastCall.op = "race_poll" /\ lastCall.kind = "Ready") =>
        \A j \in Children :
            j > Winner =>
                /\ inner_polls[j] = lastCall.was.polls[j]
                /\ ready[Store(RaceArray, j)] = lastCall.was.flags[Store(RaceArray, j)]

\* C25, amended: when slot i wins a Race.poll, no slot j > i is polled in the
\* call, and the call neither takes nor clears the flag of a slot j > i: the
\* flag is what it was before the call, unless a polled child called wake()
\* on that slot's cell during the call, and then it is true.
C25_WinLeavesLaterSlotsAlone ==
    (lastCall.op = "race_poll" /\ lastCall.kind = "Ready") =>
        \A j \in Children :
            j > Winner =>
                /\ inner_polls[j] = lastCall.was.polls[j]
                /\ ready[Store(RaceArray, j)] =
                     (lastCall.was.flags[Store(RaceArray, j)]
                        \/ wakes[Store(RaceArray, j)] > 0)

\* reached: slot 1 won and woke, while it was polled, the cell of a later
\* slot whose flag was clear; that slot was not polled and its flag is set
C25_Witness ==
    /\ lastCall.op = "race_poll"
    /\ lastCall.kind = "Ready"
    /\ Winner = 1
    /\ \E j \in Children :
         /\ j > Winner
         /\ ~lastCall.was.flags[Store(RaceArray, j)]
         /\ wakes[Store(RaceArray, j)] = 1
         /\ ready[Store(RaceArray, j)]
         /\ lastCall.was.polls[j] > 0
         /\ inner_polls[j] = lastCall.was.polls[j]

\* C24: every wake() on a cell of the Race made while a child is polled in a
\* Race.poll is forwarded to the handle that call was given: the handle of
\* the call is woken and no other handle is.
C24_Counterexample ==
    lastCall.op = "race_poll" =>
        /\ \A o \in Roots \ {lastCall.who} : wakes[o] = 0
        /\ (\E s \in Stores : wakes[s] > 0) => wakes[lastCall.who] > 0

\* ================================================================ combinators
\* Either combinator with its driver: a Join (variant "wake") or a Race
\* (variant "wakers") of counting operations that wake their own or a
\* sibling's handle, polled with any root handle and woken from outside.
InitCombinators ==
    /\ variant \in WakeVariants
    /\ InitWorld(IF variant = "wake" THEN JoinWorld ELSE RaceWorld)
    /\ ConfigIdle
    /\ debug_assertions \in BOOLEAN
    /\ ready_at \in [Children -> {Never} \cup 1..MaxReadyAt]
    /\ wake_target \in WakeTargets

NextCombinators ==
    \/ variant = "wake" /\ NextJoin
    \/ variant = "wakers" /\ NextRace

SpecCombinators == InitCombinators /\ [][NextCombinators]_vars

\* In the last poll call of the combinator wake() was called on the cell of
\* slot i after the scan had checked the slot: by child i itself while it
\* was polled, or by a child of a later slot that holds the handle of child i.
WokenAfterCheck(i) ==
    /\ lastCall.op \in {"join_poll", "race_poll"}
    /\ \E j \in i..NumChildren :
         /\ PolledInCall(j)
         /\ wake_target[j] = i
         /\ inner_polls[i] > 0

\* C26 as stated: a wake() on the cell of slot i after the slot was checked
\* in a poll call of a combinator does not get the child polled a second
\* time in that call, the flag of the slot is true when the call returns,
\* and the child, if it has not completed, is polled in the next poll call.
C26_Counterexample ==
    [][/\ \A i \in Children :
            (WokenAfterCheck(i) /\ ~panicked)' =>
                /\ inner_polls'[i] <= lastCall'.was.polls[i] + 1
                /\ ReadyFlag(Store(1, i))'
       /\ \A i \in Children, h \in Roots :
            (/\ WokenAfterCheck(i) /\ ~panicked
             /\ IF variant = "wake" THEN JoinPoll(h) ELSE RacePoll(h)
             /\ variant = "wake" => md_state[i] = "Future"
             /\ ~panicked') =>
                inner_polls'[i] = inner_polls[i] + 1]_vars

\* a slot before slot i won the last Race.poll
WonBefore(i) ==
    /\ lastCall.op = "race_poll"
    /\ lastCall.kind = "Ready"
    /\ Winner < i

\* C26, amended: a wake() on the cell of slot i after the slot was checked
\* in a poll call of a combinator does not get the child polled a second
\* time in that call, and the flag of the slot is true when the call
\* returns.  Slots are scanned in declaration order: a child that has not
\* completed and whose flag is set when a poll call starts (as it is after
\* such a wake) is polled in that call, once, in every Join.poll, and in a
\* Race.poll unless a slot before it wins that call; with its flag clear it
\* is polled in the call only if a child of an earlier slot woke its cell.
C26_WakeAfterCheckIsDeferred ==
    [][/\ \A i \in Children :
            (WokenAfterCheck(i) /\ ~panicked)' =>
                /\ inner_polls'[i] <= lastCall'.was.polls[i] + 1
                /\ ReadyFlag(Store(1, i))'
       /\ \A i \in Children, h \in Roots :
            (/\ IF variant = "wake" THEN JoinPoll(h) ELSE RacePoll(h)
             /\ variant = "wake" => md_state[i] = "Future"
             /\ ~panicked') =>
                /\ (ReadyFlag(Store(1, i)) /\ ~WonBefore(i)') =>
                     inner_polls'[i] = inner_polls[i] + 1
                /\ WonBefore(i)' => inner_polls'[i] = inner_polls[i]
                /\ (~ReadyFlag(Store(1, i)) /\ inner_polls'[i] # inner_polls[i]) =>
                     \E j \in 1..(i - 1) :
                         /\ inner_polls'[j] = inner_polls[j] + 1
                         /\ wake_target[j] = i]_vars

\* C36: a wake() on the cell of slot i changes the flag of no other slot of
\* the combinator; a flag goes from clear to set only in a step in which
\* wake() is called on its own cell; and a Join.poll or Race.poll polls a
\* child only if the flag of the child's own cell is set when the call starts
\* or wake() is called on that cell in the course of the call.
C36_WakeTouchesOwnFlagOnly ==
    [][/\ lastCall'.op = "wake" =>
            \A s \in Stores \ {lastCall'.who} : ReadyFlag(s)' = ReadyFlag(s)
       /\ \A s \in Stores :
            (~ReadyFlag(s) /\ ReadyFlag(s)') => wakes'[s] > 0
       /\ lastCall'.op \in {"join_poll", "race_poll"} =>
            \A i \in Children :
                inner_polls'[i] # inner_polls[i] =>
                    \/ ReadyFlag(Store(1, i))
                    \/ wakes'[Store(1, i)] > 0]_vars

\* reached: a Join.poll of two children that call no wake() themselves and
\* had both been polled before polled the second, whose cell had been woken
\* from outside, and not the first
C36_Witness ==
    /\ variant = "wake"
    /\ lastCall.op = "join_poll"
    /\ \A i \in Children : wake_target[i] = None /\ lastCall.was.polls[i] > 0
    /\ ~lastCall.was.flags[Store(JoinArray, 1)]
    /\ lastCall.was.flags[Store(JoinArray, 2)]
    /\ inner_polls[1] = lastCall.was.polls[1]
    /\ inner_polls[2] = lastCall.was.polls[2] + 1

\* reached: a Race.poll polled slot 2, whose child had woken its own cell
\* while it was polled in the call before, and returned Pending
C26_Witness ==
    /\ variant = "wakers"
    /\ lastCall.op = "race_poll"
    /\ lastCall.kind = "Pending"
    /\ wake_target[2] = 2
    /\ lastCall.was.polls[2] > 0
    /\ lastCall.was.flags[Store(RaceArray, 2)]
    /\ inner_polls[2] = lastCall.was.polls[2] + 1
    /\ ready[Store(RaceArray, 2)]

\* ============================================================ test scenarios
\* The scenarios of join.rs and race.rs tests::counters: a Join (variant
\* "wake") or a Race (variant "wakers") of counting operations is polled by a
\* driver until it returns Ready, at most MaxCount times.
InitCounters ==
    /\ variant \in WakeVariants
    /\ InitWorld(IF variant = "wake" THEN JoinWorld ELSE RaceWorld)
    /\ ConfigIdle
    /\ debug_assertions = TRUE
    /\ ready_at \in [Children -> {Never} \cup 1..MaxCount]
    /\ wake_target \in {f \in [Children -> {None} \cup Children] :
                          \A i \in Children : f[i] \in SelfOrNone(i)}

CountersJoinPoll(h) ==
    /\ variant = "wake"
    /\ lastCall.kind # "Ready"
    /\ calls < MaxCount
    /\ JoinPollCapped(h, MaxCount + 1)
    /\ calls' = calls + 1

CountersRacePoll(h) ==
    /\ variant = "wakers"
    /\ lastCall.kind # "Ready"
    /\ calls < MaxCount
    /\ RacePollCapped(h, MaxCount + 1)
    /\ calls' = calls + 1

NextCounters == \E h \in Roots : CountersJoinPoll(h) \/ CountersRacePoll(h)

SpecCounters == InitCounters /\ [][NextCounters]_vars

\* ------------------------------------------------------ a wake-driven driver
\* A driver that polls the Join once and from then on only after a wake()
\* has reached its root handle (the call before woke the handle), with the
\* same handle at every poll, until the Join returns Ready.
DrivenJoinPoll(h) ==
    /\ variant = "wake"
    /\ calls = 0 \/ (lastCall.who = h /\ wakes[h] > 0)
    /\ lastCall.kind # "Ready"
    /\ JoinPollCapped(h, MaxCount + 1)
    /\ calls' = calls + 1

NextDriven == \E h \in Roots : DrivenJoinPoll(h)

\* the driver does poll when it has been woken
SpecDriven == InitCounters /\ [][NextDriven]_vars /\ WF_vars(NextDriven)

\* C37: under the wake-driven driver, a Join whose children each call wake()
\* on their own handle at every poll and return Ready after finitely many
\* polls eventually returns Ready.
C37_DrivenJoinEventuallyReady ==
    (/\ variant = "wake"
     /\ \A i \in Children : wake_target[i] = i /\ ready_at[i] # Never)
        ~> (lastCall.op = "join_poll" /\ lastCall.kind = "Ready")

\* reached: the driver got Ready on the poll on which the last child
\* completed, two polls after the first child
C37_Witness ==
    /\ variant = "wake"
    /\ wake_target = <<1, 2>>
    /\ ready_at = <<1, 3>>
    /\ calls = 3
    /\ lastCall.op = "join_poll"
    /\ lastCall.kind = "Ready"
    /\ lastCall.out = Ready(<<1, 3>>)
    /\ inner_polls = <<1, 3>>

RECURSIVE MaxUpTo(_, _)
MaxUpTo(f, n) == IF n = 0 THEN 0 ELSE IF f[n] > MaxUpTo(f, n - 1) THEN f[n] ELSE MaxUpTo(f, n - 1)

\* the poll on which the last child completes
LastReadyAt == MaxUpTo(ready_at, NumChildren)

\* every child wakes its own handle at every poll and completes
CountersScenario ==
    /\ variant = "wake"
    /\ \A i \in Children :
         /\ wake_target[i] = i
         /\ ready_at[i] >= 1

\* C8: for join(opA, opB) of self-waking counters that return Ready(4) on the
\* 4th and Ready(5) on the 5th poll, the Join.poll calls return Pending four
\* times and then Ready((4, 5)), and opA is polled 4 times, opB 5 times.
\* Stated for every Join of self-waking counters: Pending until the last
\* child completes, every child polled once per call until it has completed,
\* then Ready with the counts.
C8_JoinCountersScenario ==
    CountersScenario =>
        /\ calls <= LastReadyAt
        /\ calls < LastReadyAt =>
             /\ lastCall.kind = IF calls = 0 THEN "none" ELSE "Pending"
             /\ \A i \in Children :
                  inner_polls[i] = IF calls < ready_at[i] THEN calls ELSE ready_at[i]
        /\ calls = LastReadyAt =>
             /\ lastCall.kind = "Ready"
             /\ lastCall.out = Ready(ready_at)
             /\ inner_polls = ready_at

C8_Witness ==
    /\ variant = "wake"
    /\ wake_target = <<1, 2>>
    /\ ready_at = <<4, 5>>
    /\ calls = 5
    /\ lastCall.kind = "Ready"
    /\ lastCall.out = Ready(<<4, 5>>)
    /\ inner_polls = <<4, 5>>

\* C9: for a Race in which child B wakes its own handle at every poll and
\* returns Ready(2) on its 2nd poll and no other child completes within its
\* first two polls, the first Race.poll returns Pending and the second
\* returns Ready tagged B with value 2.
C9_RaceCountersScenario ==
    (/\ variant = "wakers"
     /\ ready_at[2] = 2
     /\ wake_target[2] = 2
     /\ \A i \in Children \ {2} : ready_at[i] \notin {1, 2}) =>
        /\ calls <= 2
        /\ calls = 1 => lastCall.kind = "Pending"
        /\ calls = 2 => /\ lastCall.kind = "Ready"
                        /\ lastCall.out = Ready(Outputs(2, 2))

C9_Witness ==
    /\ variant = "wakers"
    /\ ready_at[1] = 4
    /\ ready_at[2] = 2
    /\ wake_target[1] = 1
    /\ wake_target[2] = 2
    /\ calls = 2
    /\ lastCall.kind = "Ready"
    /\ lastCall.out = Ready(Outputs(2, 2))
    /\ inner_polls[1] = 2

\* C28: the cells of a new Join or Race have their flag set and no parent, and
\* no wake() has been called; the first Join.poll then polls every child
\* exactly once, and the first Race.poll polls the children in declaration
\* order, once each, up to and including the first that returns Ready.
C28_FirstPollIsNeverSkipped ==
    /\ calls = 0 =>
         /\ wakes = NoWakes
         /\ \A i \in Children :
              /\ ReadyFlag(Store(1, i))
              /\ ParentOf(Store(1, i)) = None
              /\ inner_polls[i] = 0
    /\ calls = 1 =>
         /\ ~panicked /\ ~ub
         /\ \A i \in Children :
              /\ lastCall.was.polls[i] = 0
              /\ lastCall.was.flags[Store(1, i)]
              /\ lastCall.was.parents[i] = None
         /\ variant = "wake" => \A i \in Children : inner_polls[i] = 1
         /\ variant = "wakers" =>
              /\ \A i \in Children :
                   inner_polls[i] =
                       IF \E j \in 1..(i - 1) : ready_at[j] = 1 THEN 0 ELSE 1
              /\ lastCall.kind =
                   IF \E j \in Children : ready_at[j] = 1 THEN "Ready" ELSE "Pending"
              /\ lastCall.kind = "Ready" =>
                   /\ ready_at[Winner] = 1
                   /\ \A j \in 1..(Winner - 1) : ready_at[j] # 1

\* reached: the first poll of a Join whose children never call wake() has
\* polled both children once
C28_Witness ==
    /\ variant = "wake"
    /\ calls = 1
    /\ \A i \in Children : wake_target[i] = None /\ ready_at[i] > 1
    /\ \A i \in Children : inner_polls[i] = 1 /\ lastCall.was.polls[i] = 0
    /\ lastCall.kind = "Pending"

\* ------------------------------------------------------------------ block_on
\* block_on(f) of futures-util/src/block_on.rs for a Join f that has not been
\* polled before.  block_on creates its own root handle, polls f with it until
\* a poll returns Ready, and returns that output; the handle is dropped when
\* block_on returns or unwinds.

\* the slot of the root handle that block_on creates
BlockOnGuard == 1

\* Any child may wake no handle, its own, or that of any other child.
InitBlockOn ==
    /\ InitWorld(WakeArray_new(FreeWorld, JoinArray))
    /\ variant = "wake"
    /\ ConfigIdle
    /\ debug_assertions \in BOOLEAN
    /\ ready_at \in [Children -> {Never} \cup 1..MaxCount]
    /\ wake_target \in [Children -> {None} \cup Children]

\* a child's count of polls above MaxCount is kept as MaxCount + 1: a child
\* that completes does so by its MaxCount-th poll, and all later polls of a
\* child that does not are alike
CountedPolls(w) ==
    [w EXCEPT !.inner_polls = [i \in DOMAIN w.inner_polls |->
                                 IF w.inner_polls[i] > MaxCount
                                 THEN MaxCount + 1 ELSE w.inner_polls[i]]]

\* One turn of the loop of block_on with its handle in slot h; the first turn
\* follows the creation of the handle, and the turn whose poll returns Ready
\* (or panics) ends with the handle's drop.  The loop has no limit; calls
\* counts its turns up to MaxCount.
block_on(h) ==
    /\ variant = "wake"
    /\ ~panicked /\ ~ub
    /\ lastCall.kind # "Ready"
    /\ vg_state[h] = (IF calls = 0 THEN "free" ELSE "live")
    /\ \E w0 \in {IF calls = 0 THEN dummy_guard(Fresh, h) ELSE Fresh} :
       \E w1 \in {Join_poll(w0, h)} :
       \E w \in {CountedPolls(IF w1.ub \/ PollKind(w1) = "Pending" THEN w1
                              ELSE ScrubWake(ValueGuard_drop(w1, h)))} :
         /\ CommitWorld(w)
         /\ IF w.ub
            THEN \E k \in {"Ready", "Pending", "Panic"} :
                   lastCall' = Call("join_poll", h, Before, k, NoneOpt)
            ELSE lastCall' = Call("join_poll", h, Before, PollKind(w1), w1.ret)
    /\ calls' = IF calls < MaxCount THEN calls + 1 ELSE calls
    /\ ConfigFrame

NextBlockOn == block_on(BlockOnGuard)

SpecBlockOn == InitBlockOn /\ [][NextBlockOn]_vars

\* child i returns Pending on its first poll and never calls wake()
SilentChild(i) == wake_target[i] = None /\ ready_at[i] # 1

\* block_on has returned: a poll returned Ready, no further poll is made, the
\* output of that poll stands and the handle is gone.  While no poll has
\* returned Ready the handle lives and block_on polls again.
BlockOnReturnsOnReady ==
    /\ ~panicked /\ ~ub
    /\ lastCall.kind = "Ready" =>
         /\ ~ENABLED NextBlockOn
         /\ calls >= 1
         /\ lastCall.out = Ready(ready_at)
         /\ vg_state[BlockOnGuard] = "free"
    /\ (calls >= 1 /\ lastCall.kind # "Ready") =>
         /\ lastCall.kind = "Pending"
         /\ vg_state[BlockOnGuard] = "live"
         /\ ENABLED NextBlockOn

\* the statement of C38 as written: with a child that returned Pending
\* without calling wake(), no poll returns Ready and that child is polled once
C38_Counterexample ==
    /\ BlockOnReturnsOnReady
    /\ \A i \in Children :
         SilentChild(i) =>
             /\ lastCall.kind # "Ready"
             /\ calls >= 1 => inner_polls[i] = 1 /\ md_state[i] = "Future"

\* C38: block_on polls its future again and again with one root handle and
\* returns exactly when a poll returns Ready, with that poll's output, and
\* polls no more afterwards.  When it drives a Join that holds a child which
\* returned Pending on its first poll without calling wake(), and no other
\* child calls wake() on that child's handle, no poll ever returns Ready: that
\* child is polled once and never again, however long the loop runs.
C38_BlockOnNeedsWake ==
    /\ BlockOnReturnsOnReady
    /\ \A i \in Children :
         (SilentChild(i) /\ \A j \in Children : wake_target[j] # i) =>
             /\ lastCall.kind # "Ready"
             /\ calls >= 1 =>
                  /\ inner_polls[i] = 1
                  /\ md_state[i] = "Future"
                  /\ ~activated[Store(JoinArray, i)]

\* reached: MaxCount and more turns of the loop over a Join whose first child
\* returned Pending once without waking and whose second child wakes its own
\* handle at every poll and never completes: the second child has been polled
\* more than MaxCount times, the first once, and the loop goes on
C38_Witness ==
    /\ calls = MaxCount
    /\ wake_target = <<None, 2>>
    /\ ready_at = <<2, Never>>
    /\ inner_polls = <<1, MaxCount + 1>>
    /\ md_state = <<"Future", "Future">>
    /\ lastCall.kind = "Pending"
    /\ lastCall.was.polls = inner_polls
    /\ ENABLED NextBlockOn

\* no child of the Race ever calls wake(), and none completes on its first poll
NeverWakeScenario ==
    /\ variant = "wakers"
    /\ \A i \in Children : wake_target[i] = None /\ ready_at[i] # 1

\* C19: in a Race whose children return Pending without calling wake(), the
\* first Race.poll polls every child once and returns Pending, and every
\* later Race.poll returns Pending and polls no child: each poll count stays 1.
C19_RaceNeverWokenStaysPending ==
    NeverWakeScenario =>
        /\ calls = 0 => \A i \in Children : inner_polls[i] = 0
        /\ calls >= 1 =>
             /\ lastCall.op = "race_poll"
             /\ lastCall.kind = "Pending"
             /\ \A i \in Children : inner_polls[i] = 1
        /\ calls >= 2 => lastCall.was.polls = inner_polls

\* reached: MaxCount polls of a Race of children that never complete
C19_Witness ==
    /\ NeverWakeScenario
    /\ \A i \in Children : ready_at[i] = Never
    /\ calls = MaxCount
    /\ lastCall.kind = "Pending"
    /\ \A i \in Children : inner_polls[i] = 1 /\ ~ready[Store(RaceArray, i)]

====
